---------------------------- MODULE Spec2Model ----------------------------
(***************************************************************************)
(* Client-side navigation and notebook reconciliation of the DuckPond web  *)
(* UI: the path-template Router and the App that registers its routes and  *)
(* guards (static/js/app.js, kept as src/unnamed/part_002), and the data   *)
(* model of NotebooksView (static/js/views/notebooks.js).                  *)
(*                                                                         *)
(* Strings on which the code works character by character (route          *)
(* templates, paths, file names, search queries) are sequences of          *)
(* one-character strings, so that replace / match / endsWith / includes /  *)
(* toLowerCase are computed, not assumed.                                  *)
(***************************************************************************)
EXTENDS Integers, Sequences, FiniteSets, TLC

VARIABLES
    routes,        \* Router.routes: registered route records, in order
    lookup,        \* the last Router._matchRoute call: what it was asked, what it returned
    data,          \* NotebooksView.data: notebooks, sessions, filteredNotebooks, ...
    fetched,       \* the two collections as the server returned them
    filterIn,      \* two inputs of _applyFilters over the same set of notebooks
    filterOut,     \* what _applyFilters left in filteredNotebooks for each of them
    inited,        \* App.init() has run
    calls,         \* activations of Router.navigate / Router._handleRoute, oldest first
    microtasks,    \* activations whose awaited promise has settled, in queue order
    currentRoute,  \* Router.currentRoute
    history,       \* window.history: the session entries and the current one
    user,          \* authManager.user
    returnUrl,     \* sessionStorage item duckpond_return_url
    href,          \* the document load asked for by assigning window.location.href
    container,     \* children of #content-container
    isLoading,     \* App.isLoading
    currentView,   \* App.currentView
    title,         \* document.title
    commits,       \* activations in the order in which they wrote currentRoute
    views,         \* the view objects the App has constructed, oldest first
    mounted,       \* App.currentView, as an index of views (0: null)
    display,       \* what the container shows: <<kind, view that put it there>>
    intervals,     \* the browser's setInterval timers: id, view, cleared or not
    ticks,         \* activations of the polling callback
    server,        \* the session the server holds for each notebook
    model,         \* NotebooksView.data.notebooks: the merged view, by file name
    cards,         \* the notebook cards in the list: element and content of its control area
    ops,           \* activations of _startNotebook / _stopNotebook that made a progress indicator
    toasts,        \* notifications shown, oldest first
    requests,      \* API requests issued, oldest first
    lastAction,    \* the operation the last step was part of
    session,       \* authManager.user, sessionStorage and window.location of the API client's page
    apiCalls       \* calls of the API client and of AuthManager.getCurrentUser

matchVars == <<routes, lookup>>
mergeVars == <<data, fetched>>
filterVars == <<filterIn, filterOut>>
navVars == <<inited, calls, microtasks, currentRoute, history, user, returnUrl,
             href, container, isLoading, currentView, title, commits>>
viewVars == <<views, mounted, display, intervals, ticks>>
opVars == <<server, model, cards, ops, toasts, requests, lastAction>>
apiVars == <<session, apiCalls>>
vars == <<matchVars, mergeVars, filterVars, navVars, viewVars, opVars, apiVars>>

-----------------------------------------------------------------------------
(* Bounds of the model.                                                    *)

MaxRoutes == 2        \* routes registered in the route-matching specification
MaxPathLen == 4       \* characters of a path handed to _matchRoute
MaxDefs == 2          \* notebook definitions in a listNotebooks response
MaxSessions == 2      \* session records in a listSessions response
MaxNotebooks == 2     \* merged notebooks handed to _applyFilters

-----------------------------------------------------------------------------
(* Characters.                                                             *)

Slash == "/"
Colon == ":"
Dot == "."

\* \w of the JavaScript regular expressions, as far as the model's alphabet goes
WordChars == {"a", "b", "A", "p", "n", "s", "x", "o", "t", "e", "k", "i", "d", "g"}

PathChars == {"/", "a", "b"}

Range(s) == {s[i] : i \in DOMAIN s}

Max(S) == CHOOSE m \in S : \A k \in S : k <= m
Min(S) == CHOOSE m \in S : \A k \in S : m <= k

RECURSIVE SeqsUpTo(_, _)
SeqsUpTo(S, n) ==
    IF n = 0 THEN {<<>>}
    ELSE LET shorter == SeqsUpTo(S, n - 1)
         IN  shorter \cup {Append(s, c) : s \in shorter, c \in S}

-----------------------------------------------------------------------------
(* Route Matcher: Router._pathToRegex, _extractParamNames, _matchRoute.    *)

\* the regular expression fragment ([^/]+) that replaces a placeholder
GroupTok == "([^/]+)"

\* length of the run of \w characters of s that starts at index i
RECURSIVE WordRun(_, _)
WordRun(s, i) ==
    IF i <= Len(s) /\ s[i] \in WordChars THEN 1 + WordRun(s, i + 1) ELSE 0

\* path.replace(/\//g, "\\/").replace(/:(\w+)/g, "([^/]+)"), read from index i.
\* The result is the sequence of atoms of the regular expression: GroupTok for a
\* placeholder, "/" for the escaped slash, and every other character as the
\* atom it is in a regular expression ("." is left unescaped by the code and is
\* therefore the any-character atom; a ":" with no \w after it stays a literal).
RECURSIVE PathToRegexFrom(_, _)
PathToRegexFrom(path, i) ==
    IF i > Len(path) THEN <<>>
    ELSE IF path[i] = Colon /\ WordRun(path, i + 1) > 0
         THEN <<GroupTok>> \o PathToRegexFrom(path, i + 1 + WordRun(path, i + 1))
         ELSE <<path[i]>> \o PathToRegexFrom(path, i + 1)

\* a slip: replace without the g flag compiles the first placeholder only
RECURSIVE LiteralFrom(_, _)
LiteralFrom(path, i) ==
    IF i > Len(path) THEN <<>> ELSE <<path[i]>> \o LiteralFrom(path, i + 1)

RECURSIVE PathToRegexFirstOnlyFrom(_, _)
PathToRegexFirstOnlyFrom(path, i) ==
    IF i > Len(path) THEN <<>>
    ELSE IF path[i] = Colon /\ WordRun(path, i + 1) > 0
         THEN <<GroupTok>> \o LiteralFrom(path, i + 1 + WordRun(path, i + 1))
         ELSE <<path[i]>> \o PathToRegexFirstOnlyFrom(path, i + 1)

PathToRegexFirstOnly(path) == PathToRegexFirstOnlyFrom(path, 1)

PathToRegex(path) == PathToRegexFrom(path, 1)

\* path.match(/:(\w+)/g) then m.slice(1): the placeholder names, in order
RECURSIVE ExtractParamNamesFrom(_, _)
ExtractParamNamesFrom(path, i) ==
    IF i > Len(path) THEN <<>>
    ELSE IF path[i] = Colon /\ WordRun(path, i + 1) > 0
         THEN <<SubSeq(path, i + 1, i + WordRun(path, i + 1))>>
              \o ExtractParamNamesFrom(path, i + 1 + WordRun(path, i + 1))
         ELSE ExtractParamNamesFrom(path, i + 1)

ExtractParamNames(path) == ExtractParamNamesFrom(path, 1)

\* length of the run of non-slash characters of s that starts at index j
RECURSIVE NonSlashRun(_, _)
NonSlashRun(s, j) ==
    IF j <= Len(s) /\ s[j] # Slash THEN 1 + NonSlashRun(s, j + 1) ELSE 0

NoMatch == [ok |-> FALSE, groups |-> <<>>]

\* new RegExp(`^${pattern}$`) applied by String.match: atoms pattern[i..] against
\* path[j..], anchored at the end. A group is greedy: it takes the longest run
\* of non-slash characters with which the rest still matches.
RECURSIVE RegexMatchFrom(_, _, _, _)
RegexMatchFrom(pattern, path, i, j) ==
    IF i > Len(pattern) THEN [ok |-> j > Len(path), groups |-> <<>>]
    ELSE IF pattern[i] = GroupTok
    THEN LET lens == {k \in 1..NonSlashRun(path, j) :
                         RegexMatchFrom(pattern, path, i + 1, j + k).ok}
         IN  IF lens = {} THEN NoMatch
             ELSE LET k == Max(lens)
                  IN  [ok |-> TRUE,
                       groups |-> <<SubSeq(path, j, j + k - 1)>>
                                  \o RegexMatchFrom(pattern, path, i + 1, j + k).groups]
    ELSE IF j <= Len(path) /\ (pattern[i] = Dot \/ pattern[i] = path[j])
    THEN RegexMatchFrom(pattern, path, i + 1, j + 1)
    ELSE NoMatch

RegexMatch(pattern, path) == RegexMatchFrom(pattern, path, 1, 1)

\* Router.register: the record pushed onto Router.routes
RouteRecord(path, handler, options) ==
    [path |-> path, pattern |-> PathToRegex(path), handler |-> handler,
     options |-> options, paramNames |-> ExtractParamNames(path)]

\* route.paramNames.forEach((name, index) => params[name] = match[index + 1]):
\* an object keyed by name, so a later placeholder of the same name overwrites
Params(paramNames, groups) ==
    [name \in Range(paramNames) |->
        groups[Max({i \in DOMAIN paramNames : paramNames[i] = name})]]

NoRoute == [found |-> FALSE]

\* a slip: the loop keeps going and the last accepting route wins
RECURSIVE MatchRouteLastFrom(_, _, _)
MatchRouteLastFrom(rs, path, i) ==
    IF i < 1 THEN NoRoute
    ELSE LET m == RegexMatch(rs[i].pattern, path)
         IN  IF m.ok
             THEN [found |-> TRUE, index |-> i, route |-> rs[i],
                   params |-> Params(rs[i].paramNames, m.groups)]
             ELSE MatchRouteLastFrom(rs, path, i - 1)

MatchRouteLast(rs, path) == MatchRouteLastFrom(rs, path, Len(rs))

\* Router._matchRoute: for (const route of this.routes) ... return at the first match
RECURSIVE MatchRouteFrom(_, _, _)
MatchRouteFrom(rs, path, i) ==
    IF i > Len(rs) THEN NoRoute
    ELSE LET m == RegexMatch(rs[i].pattern, path)
         IN  IF m.ok
             THEN [found |-> TRUE, index |-> i, route |-> rs[i],
                   params |-> Params(rs[i].paramNames, m.groups)]
             ELSE MatchRouteFrom(rs, path, i + 1)

MatchRoute(rs, path) == MatchRouteFrom(rs, path, 1)

-----------------------------------------------------------------------------
(* NotebooksView data: _mergeSessionsWithNotebooks and _applyFilters.      *)

\* null, and an attribute the server left out (undefined)
Null == <<>>

\* String.prototype.toLowerCase, character by character
LowerChar(c) == IF c = "A" THEN "a" ELSE c

ToLowerCase(s) == [i \in DOMAIN s |-> LowerChar(s[i])]

\* UTF-16 code unit of a character
CharCode(c) ==
    CASE c = "." -> 46 [] c = "/" -> 47 [] c = "A" -> 65
      [] c = "a" -> 97 [] c = "b" -> 98 [] c = "x" -> 120
      [] OTHER -> 0

\* a < b on JavaScript strings: by code unit, a proper prefix first
RECURSIVE StrLessFrom(_, _, _)
StrLessFrom(a, b, i) ==
    IF i > Len(b) THEN FALSE
    ELSE IF i > Len(a) THEN TRUE
    ELSE IF a[i] # b[i] THEN CharCode(a[i]) < CharCode(b[i])
    ELSE StrLessFrom(a, b, i + 1)

StrLess(a, b) == StrLessFrom(a, b, 1)

\* String.prototype.endsWith
EndsWith(s, suffix) ==
    /\ Len(suffix) <= Len(s)
    /\ SubSeq(s, Len(s) - Len(suffix) + 1, Len(s)) = suffix

\* String.prototype.includes
Includes(s, q) ==
    \E k \in 0..(Len(s) - Len(q)) : SubSeq(s, k + 1, k + Len(q)) = q

\* the predicate handed to this.data.sessions.find; notebook.path is Null
\* (undefined) when the definition carries none
SessionMatches(s, notebook) ==
    \/ s.notebook_path = notebook.filename
    \/ s.notebook_path = notebook.path
    \/ EndsWith(s.notebook_path, notebook.filename)

\* a slip: find replaced by a loop that keeps the last matching session
FindSessionLast(sessions, notebook) ==
    LET hits == {j \in DOMAIN sessions : SessionMatches(sessions[j], notebook)}
    IN  IF hits = {} THEN 0 ELSE Max(hits)

\* Array.prototype.find: the index of the first session the predicate accepts,
\* 0 when there is none
RECURSIVE FindSessionFrom(_, _, _)
FindSessionFrom(sessions, notebook, j) ==
    IF j > Len(sessions) THEN 0
    ELSE IF SessionMatches(sessions[j], notebook) THEN j
    ELSE FindSessionFrom(sessions, notebook, j + 1)

FindSession(sessions, notebook) == FindSessionFrom(sessions, notebook, 1)

\* `/notebooks/sessions/${session.session_id}/ui`
UiUrl(session_id) == <<"/notebooks/sessions/">> \o session_id \o <<"/ui">>

\* a slip: the status is taken from the last matching session, the id and
\* the URL from the first
MergeOneMixed(notebook, sessions) ==
    LET j == FindSession(sessions, notebook)
        k == FindSessionLast(sessions, notebook)
    IN  IF j # 0
        THEN [filename |-> notebook.filename, path |-> notebook.path,
              session_id |-> sessions[j].session_id,
              status |-> sessions[k].status,
              url |-> UiUrl(sessions[j].session_id)]
        ELSE [filename |-> notebook.filename, path |-> notebook.path,
              session_id |-> Null, status |-> "stopped", url |-> Null]

\* a slip: without a session the spread comes last, so that the attributes
\* an earlier merge left on the notebook survive
MergeOneSpreadLast(notebook, sessions) ==
    LET j == FindSession(sessions, notebook)
        Kept(name, default) ==
            IF name \in DOMAIN notebook THEN notebook[name] ELSE default
    IN  IF j # 0
        THEN [filename |-> notebook.filename, path |-> notebook.path,
              session_id |-> sessions[j].session_id,
              status |-> sessions[j].status,
              url |-> UiUrl(sessions[j].session_id)]
        ELSE [filename |-> notebook.filename, path |-> notebook.path,
              session_id |-> Kept("session_id", Null),
              status |-> Kept("status", "stopped"),
              url |-> Kept("url", Null)]

\* the callback of this.data.notebooks.map: the spread keeps the notebook's own
\* attributes, the three session attributes are overwritten
MergeOne(notebook, sessions) ==
    LET j == FindSession(sessions, notebook)
    IN  IF j # 0
        THEN [filename |-> notebook.filename, path |-> notebook.path,
              session_id |-> sessions[j].session_id,
              status |-> sessions[j].status,
              url |-> UiUrl(sessions[j].session_id)]
        ELSE [filename |-> notebook.filename, path |-> notebook.path,
              session_id |-> Null, status |-> "stopped", url |-> Null]

\* NotebooksView._mergeSessionsWithNotebooks
MergeSessionsWithNotebooks(notebooks, sessions) ==
    [i \in DOMAIN notebooks |-> MergeOne(notebooks[i], sessions)]

\* a slip: the file name is compared without toLowerCase
MatchesSearchCaseSensitive(n, searchQuery) ==
    searchQuery = <<>> \/ Includes(n.filename, ToLowerCase(searchQuery))

\* the search step: skipped when the query is empty, else
\* (n.filename || "").toLowerCase().includes(query)
MatchesSearch(n, searchQuery) ==
    searchQuery = <<>> \/ Includes(ToLowerCase(n.filename), ToLowerCase(searchQuery))

\* the status step
MatchesStatus(n, filterStatus) ==
    IF filterStatus = "all" THEN TRUE
    ELSE IF filterStatus = "active" THEN n.status = "running"
    ELSE IF filterStatus = "idle" THEN n.status # "running"
    ELSE TRUE

\* the comparator handed to filtered.sort: it never returns 0
Compare(a, b, sortOrder) ==
    LET aVal == ToLowerCase(a.filename)
        bVal == ToLowerCase(b.filename)
    IN  IF sortOrder = "asc"
        THEN (IF StrLess(bVal, aVal) THEN 1 ELSE -1)
        ELSE (IF StrLess(aVal, bVal) THEN 1 ELSE -1)

IndexPermutations(n) == {f \in [1..n -> 1..n] : \A i, j \in 1..n : f[i] = f[j] => i = j}

\* Array.prototype.sort: the lists it may leave. For elements the comparator
\* orders both ways (equal keys: it answers -1 whichever comes first) the
\* order is implementation-defined, so either order is an outcome.
SortOutcomes(list, sortOrder) ==
    {out \in {[i \in DOMAIN list |-> list[f[i]]] : f \in IndexPermutations(Len(list))} :
        \A i, j \in DOMAIN out : i < j => Compare(out[i], out[j], sortOrder) <= 0}

\* NotebooksView._applyFilters: the values it may leave in filteredNotebooks
ApplyFilters(notebooks, searchQuery, filterStatus, sortOrder) ==
    LET Searched(n) == MatchesSearch(n, searchQuery)
        Status(n) == MatchesStatus(n, filterStatus)
    IN  SortOutcomes(SelectSeq(SelectSeq(notebooks, Searched), Status), sortOrder)

-----------------------------------------------------------------------------
(* Specification SpecMerge: the two collections have arrived (lines 63 and *)
(* 86 of notebooks.js) and _fetchNotebooks goes on to merge and filter.    *)

MergeFilenames == { <<"a">>, <<"b">>, <<"b", "a">> }

\* a definition may carry a path attribute; a path ends with its file name
NotebookDefs ==
    {[filename |-> f, path |-> Null] : f \in MergeFilenames}
    \cup {[filename |-> <<"b">>, path |-> <<"x", "/", "b">>]}

SessionPaths == { <<"a">>, <<"x", "/", "a">>, <<"b", "a">>, <<"x", "/", "b">> }

SessionStatuses == {"running", "stopping"}

\* the identity of the j-th session of a response
SessionId(j) == <<"s", j>>

\* listNotebooks responses: definitions with pairwise different file names
NotebookLists ==
    {l \in SeqsUpTo(NotebookDefs, MaxDefs) :
        \A i, j \in DOMAIN l : l[i].filename = l[j].filename => i = j}

\* listSessions responses
SessionLists ==
    {[j \in DOMAIN l |-> [session_id |-> SessionId(j), notebook_path |-> l[j][1],
                          status |-> l[j][2]]] :
        l \in SeqsUpTo(SessionPaths \X SessionStatuses, MaxSessions)}

\* the view's data as its constructor leaves it; merged tells whether the
\* elements of notebooks are raw definitions or carry the session attributes
NewData ==
    [notebooks |-> <<>>, sessions |-> <<>>, filteredNotebooks |-> <<>>,
     searchQuery |-> <<>>, filterStatus |-> "all", sortBy |-> "name",
     sortOrder |-> "desc", merged |-> FALSE]

MergeIdle ==
    /\ data = NewData
    /\ fetched = [notebooks |-> <<>>, sessions |-> <<>>]

FilterIdle ==
    /\ filterIn = <<>>
    /\ filterOut = <<>>

MatchIdle ==
    /\ routes = <<>>
    /\ lookup = [asked |-> FALSE, path |-> <<>>]

\* the page as the constructors of Router and App leave it (lines 10-15, 174-179)
NavIdle ==
    /\ inited = FALSE
    /\ calls = <<>>
    /\ microtasks = <<>>
    /\ currentRoute = Null
    /\ history = [entries |-> <<>>, index |-> 0]
    /\ user = Null
    /\ returnUrl = Null
    /\ href = Null
    /\ container = <<>>
    /\ isLoading = FALSE
    /\ currentView = Null
    /\ title = ""
    /\ commits = <<>>

\* no view has been constructed
ViewIdle ==
    /\ views = <<>>
    /\ mounted = 0
    /\ display = <<"none", 0>>
    /\ intervals = {}
    /\ ticks = <<>>

\* no notebook is listed and nothing has been started or stopped
OpsIdle ==
    /\ server = <<>>
    /\ model = <<>>
    /\ cards = <<>>
    /\ ops = <<>>
    /\ toasts = <<>>
    /\ requests = <<>>
    /\ lastAction = [name |-> "none"]

\* no API call has been made
ApiIdle ==
    /\ session = <<>>
    /\ apiCalls = <<>>

MergeInit ==
    /\ MatchIdle
    /\ FilterIdle
    /\ NavIdle
    /\ ViewIdle
    /\ OpsIdle
    /\ ApiIdle
    /\ \E nbs \in NotebookLists, ss \in SessionLists :
          /\ fetched = [notebooks |-> nbs, sessions |-> ss]
          /\ data = [NewData EXCEPT !.notebooks = nbs, !.sessions = ss]

\* lines 67-69 of _fetchNotebooks: merge, then filter
MergeAndFilter ==
    /\ LET merged == MergeSessionsWithNotebooks(data.notebooks, data.sessions)
       IN  \E filtered \in ApplyFilters(merged, data.searchQuery,
                                        data.filterStatus, data.sortOrder) :
              data' = [data EXCEPT !.notebooks = merged,
                                   !.filteredNotebooks = filtered,
                                   !.merged = TRUE]
    /\ UNCHANGED <<fetched, matchVars, filterVars, navVars, viewVars, opVars, apiVars>>

-----------------------------------------------------------------------------
(* Specification SpecFilters: _applyFilters applied to two inputs that     *)
(* hold the same notebooks, search query and status filter.                *)

FilterFilenames == { <<"a">>, <<"A">>, <<"b">>, <<"b", "a">> }

FilterStatuses == {"running", "stopped"}

\* merged notebooks, as far as _applyFilters reads them
FilterNotebooks == {[filename |-> f, status |-> st] : f \in FilterFilenames, st \in FilterStatuses}

FilterLists ==
    {l \in SeqsUpTo(FilterNotebooks, MaxNotebooks) :
        \A i, j \in DOMAIN l : l[i].filename = l[j].filename => i = j}

SearchQueries == { <<>>, <<"a">>, <<"A">>, <<"b">> }

FilterChoices == {"all", "active", "idle"}

SortOrders == {"asc", "desc"}

NotRun == [done |-> FALSE]

FilterInit ==
    /\ \E l \in FilterLists, q \in SearchQueries, fs \in FilterChoices,
          o1 \in SortOrders, o2 \in SortOrders :
          \E f \in IndexPermutations(Len(l)) :
             filterIn = << [notebooks |-> l, searchQuery |-> q,
                            filterStatus |-> fs, sortOrder |-> o1],
                           [notebooks |-> [i \in DOMAIN l |-> l[f[i]]], searchQuery |-> q,
                            filterStatus |-> fs, sortOrder |-> o2] >>
    /\ filterOut = <<NotRun, NotRun>>
    /\ MatchIdle
    /\ MergeIdle
    /\ NavIdle
    /\ ViewIdle
    /\ OpsIdle
    /\ ApiIdle

\* one call of _applyFilters
RunApplyFilters(k) ==
    /\ ~filterOut[k].done
    /\ \E out \in ApplyFilters(filterIn[k].notebooks, filterIn[k].searchQuery,
                               filterIn[k].filterStatus, filterIn[k].sortOrder) :
          \* one engine sorts one input one way
          /\ (filterOut[3 - k].done /\ filterIn[3 - k] = filterIn[k])
                => out = filterOut[3 - k].list
          /\ filterOut' = [filterOut EXCEPT ![k] = [done |-> TRUE, list |-> out]]
    /\ UNCHANGED <<filterIn, matchVars, mergeVars, navVars, viewVars, opVars, apiVars>>

-----------------------------------------------------------------------------
(* Specification SpecMatch: routes are registered one by one and a path is *)
(* looked up in between.                                                   *)

\* templates offered to Router.register
Templates ==
    { <<"/", "a">>,                          \* /a
      <<"/", "a", "/">>,                     \* /a/
      <<"/", ":", "a">>,                     \* /:a
      <<"/", "a", "/", ":", "b">>,           \* /a/:b
      <<"/", ":", "a", "/", ":", "b">>,      \* /:a/:b
      <<"/", ":", "a", "/", ":", "a">>,      \* /:a/:a
      <<"/", "a", ".", "b">> }               \* /a.b

NoOptions == [requireAuth |-> FALSE, title |-> "none"]

Paths == SeqsUpTo(PathChars, MaxPathLen)

\* the path is drawn once; the lookup of it may be repeated as routes are added
MatchInit ==
    /\ routes = <<>>
    /\ \E p \in Paths : lookup = [asked |-> FALSE, path |-> p]
    /\ MergeIdle
    /\ FilterIdle
    /\ NavIdle
    /\ ViewIdle
    /\ OpsIdle
    /\ ApiIdle

Register(template) ==
    /\ Len(routes) < MaxRoutes
    /\ routes' = Append(routes, RouteRecord(template, "handler", NoOptions))
    /\ UNCHANGED <<lookup, mergeVars, filterVars, navVars, viewVars, opVars, apiVars>>

Lookup ==
    /\ lookup' = [asked |-> TRUE, path |-> lookup.path, routes |-> routes,
                  result |-> MatchRoute(routes, lookup.path)]
    /\ UNCHANGED <<routes, mergeVars, filterVars, navVars, viewVars, opVars, apiVars>>

MatchNext ==
    \/ \E t \in Templates : Register(t)
    \/ Lookup

SpecMatch == MatchInit /\ [][MatchNext]_vars

MergeNext == MergeAndFilter

SpecMerge == MergeInit /\ [][MergeNext]_vars

FilterNext == \E k \in {1, 2} : RunApplyFilters(k)

SpecFilters == FilterInit /\ [][FilterNext]_vars

-----------------------------------------------------------------------------
(* Navigation: Router.navigate / Router._handleRoute and the routes,       *)
(* guards and handlers that App registers.                                 *)

MaxNav == 2       \* navigations the user starts (navigate calls, back/forward)

AppPath == <<"/", "a", "p", "p">>
NotebooksPath == AppPath \o <<"/", "n", "o", "t", "e", "b", "o", "o", "k", "s">>
NotebookDetailTemplate == NotebooksPath \o <<"/", ":", "i", "d">>
SettingsPath == AppPath \o <<"/", "s", "e", "t", "t", "i", "n", "g", "s">>
LoginPath == <<"/", "l", "o", "g", "i", "n">>
RootPath == <<"/">>

\* a slip: the route of the default path is not registered
AppRoutesWithoutDefault ==
    << RouteRecord(NotebooksPath, "renderNotebooks",
                   [requireAuth |-> TRUE, title |-> "Notebooks - DuckPond"]),
       RouteRecord(NotebookDetailTemplate, "renderNotebookDetail",
                   [requireAuth |-> TRUE, title |-> "Notebook - DuckPond"]),
       RouteRecord(SettingsPath, "renderSettings",
                   [requireAuth |-> TRUE, title |-> "Settings - DuckPond"]) >>

\* App._registerRoutes: the route table, in registration order
AppRoutes ==
    << RouteRecord(AppPath, "redirectToNotebooks",
                   [requireAuth |-> TRUE, title |-> "DuckPond"]),
       RouteRecord(NotebooksPath, "renderNotebooks",
                   [requireAuth |-> TRUE, title |-> "Notebooks - DuckPond"]),
       RouteRecord(NotebookDetailTemplate, "renderNotebookDetail",
                   [requireAuth |-> TRUE, title |-> "Notebook - DuckPond"]),
       RouteRecord(SettingsPath, "renderSettings",
                   [requireAuth |-> TRUE, title |-> "Settings - DuckPond"]) >>

\* the path _handle404 navigates to
DefaultPath == AppPath

\* notebook ids handed to App.navigate: a file name, and the empty string
NotebookIds == { <<"a">>, <<>> }

\* route names handed to App.navigate; "home" is not in its table
RouteNames == {"notebooks", "notebook-detail", "settings", "home"}

\* the table of App.navigate (lines 316-322); an unknown name means notebooks
PathOfRoute(routeName, id) ==
    CASE routeName = "notebooks" -> NotebooksPath
      [] routeName = "notebook-detail" -> NotebooksPath \o <<"/">> \o id
      [] routeName = "settings" -> SettingsPath
      [] OTHER -> NotebooksPath

\* paths the page is opened at: the default path and those App.navigate
\* builds, of which /app/notebooks/ (empty id) is accepted by no route
NavPaths ==
    {AppPath} \cup {PathOfRoute(n, id) : n \in RouteNames, id \in NotebookIds}

\* _matchRoute of the paths of the model against the table of the App, computed once
AppMatches == [p \in NavPaths |-> MatchRoute(AppRoutes, p)]

\* this.router._matchRoute(path) on the page w
MatchOn(w, path) ==
    IF w.routes = AppRoutes /\ path \in NavPaths
    THEN AppMatches[path]
    ELSE MatchRoute(w.routes, path)

\* what sessionStorage holds for a logged-in user
SomeUser == [name |-> "user"]

\* the mutable state of the page, as one record
World ==
    [routes |-> routes, calls |-> calls, microtasks |-> microtasks,
     currentRoute |-> currentRoute, history |-> history, user |-> user,
     returnUrl |-> returnUrl, href |-> href, container |-> container,
     isLoading |-> isLoading, currentView |-> currentView, title |-> title,
     commits |-> commits]

Becomes(w) ==
    /\ routes' = w.routes
    /\ calls' = w.calls
    /\ microtasks' = w.microtasks
    /\ currentRoute' = w.currentRoute
    /\ history' = w.history
    /\ user' = w.user
    /\ returnUrl' = w.returnUrl
    /\ href' = w.href
    /\ container' = w.container
    /\ isLoading' = w.isLoading
    /\ currentView' = w.currentView
    /\ title' = w.title
    /\ commits' = w.commits

\* window.location.pathname
Pathname(w) == w.history.entries[w.history.index]

\* history.pushState: the entries after the current one are dropped
PushState(h, path) ==
    [entries |-> Append(SubSeq(h.entries, 1, h.index), path), index |-> h.index + 1]

\* history.replaceState
ReplaceState(h, path) ==
    [entries |-> [h.entries EXCEPT ![h.index] = path], index |-> h.index]

\* container.querySelector(".loading-screen"): position of the first such child, 0 if none
LoadingScreenIn(nodes) ==
    LET at == {i \in DOMAIN nodes : nodes[i] = "loading-screen"}
    IN  IF at = {} THEN 0 ELSE Min(at)

RemoveAt(s, i) == SubSeq(s, 1, i - 1) \o SubSeq(s, i + 1, Len(s))

\* App._showLoading
ShowLoading(w) ==
    IF w.isLoading THEN w
    ELSE [w EXCEPT !.isLoading = TRUE,
                   !.container = IF LoadingScreenIn(w.container) = 0
                                 THEN Append(w.container, "loading-screen")
                                 ELSE w.container]

\* App._hideLoading
HideLoading(w) ==
    [w EXCEPT !.isLoading = FALSE,
              !.container = IF LoadingScreenIn(w.container) # 0
                            THEN RemoveAt(w.container, LoadingScreenIn(w.container))
                            ELSE w.container]

\* AuthManager.isAuthenticated
IsAuthenticated(w) == w.user # Null

\* AuthManager.redirectToLogin(), no return URL given
RedirectToLogin(w) ==
    LET currentPath == Pathname(w)
    IN  [w EXCEPT !.returnUrl = IF currentPath # LoginPath /\ currentPath # RootPath
                                THEN currentPath ELSE w.returnUrl,
                  !.href = LoginPath]

\* a slip: the loading screen is shown before authentication is checked
BeforeGuardLoadingFirst(w, to) ==
    LET route == MatchOn(w, to)
        shown == ShowLoading(w)
    IN  IF route.found /\ route.route.options.requireAuth /\ ~IsAuthenticated(w)
        THEN [w |-> RedirectToLogin(shown), result |-> FALSE]
        ELSE [w |-> shown, result |-> TRUE]

\* the before-guard of App._setupRouteGuards: the page it leaves and what it returns
BeforeGuard(w, to) ==
    LET route == MatchOn(w, to)
    IN  IF route.found /\ route.route.options.requireAuth /\ ~IsAuthenticated(w)
        THEN [w |-> RedirectToLogin(w), result |-> FALSE]
        ELSE [w |-> ShowLoading(w), result |-> TRUE]

\* the after-guard of App._setupRouteGuards
AfterGuard(w, to) ==
    LET route == MatchOn(w, to)
        titled == IF route.found
                  THEN [w EXCEPT !.title = route.route.options.title]
                  ELSE w
    IN  HideLoading(titled)

\* what a veto may not touch: history, Router.currentRoute, the container
Observed(w) ==
    [history |-> w.history, currentRoute |-> w.currentRoute, container |-> w.container]

\* a slip: the answer of the guard is ignored
NeverVetoed(result) == FALSE

\* line 95: result === false
Vetoed(result) == result = FALSE

\* Router.navigate up to its first await (lines 91-94): the before-guard has
\* run and its answer is awaited. parent is the activation whose _handle404
\* made the call, 0 for a call from outside the router. guardSaw holds what
\* the guard found and what it left.
StartNavigate(w, path, replace, parent) ==
    LET g == BeforeGuard(w, path)
        c == [kind |-> IF parent = 0 THEN "navigate" ELSE "redirect",
              path |-> path, replace |-> replace, parent |-> parent,
              pc |-> "before", result |-> g.result,
              events |-> << IF g.result THEN "approved" ELSE "vetoed" >>,
              handler |-> "none", outcome |-> "none", committed |-> Null,
              guardSaw |-> <<Observed(w), Observed(g.w)>>]
    IN  [g.w EXCEPT !.calls = Append(g.w.calls, c),
                    !.microtasks = Append(g.w.microtasks, Len(g.w.calls) + 1)]

\* Router._handleRoute called directly (init, popstate): no guard, no history update
StartHandleRoute(w, kind) ==
    [w EXCEPT !.calls = Append(w.calls,
        [kind |-> kind, path |-> Pathname(w), replace |-> FALSE, parent |-> 0,
         pc |-> "route", result |-> TRUE, events |-> <<>>,
         handler |-> "none", outcome |-> "none", committed |-> Null,
         guardSaw |-> <<Observed(w), Observed(w)>>])]

\* Router._handle404
Handle404(w, c) == StartNavigate(w, DefaultPath, TRUE, c)

\* the route handlers of App._registerRoutes, up to their first await.
\* redirectToNotebooks and renderNotebookDetail finish at once; renderNotebooks
\* and renderSettings replace the view, whose render shows its own loading
\* screen and waits for the server.
Handler(w, c, name) ==
    CASE name = "redirectToNotebooks" ->
            [w EXCEPT !.href = NotebooksPath,
                      !.calls[c].outcome = "returned",
                      !.microtasks = Append(w.microtasks, c)]
      [] name = "renderNotebookDetail" ->
            [w EXCEPT !.container = <<"notebook-detail">>,
                      !.calls[c].outcome = "returned",
                      !.microtasks = Append(w.microtasks, c)]
      [] name = "renderNotebooks" ->
            [w EXCEPT !.currentView = [view |-> "NotebooksView", by |-> c],
                      !.container = <<"loading-screen">>,
                      !.calls[c].outcome = "pending"]
      [] name = "renderSettings" ->
            [w EXCEPT !.currentView = [view |-> "SettingsView", by |-> c],
                      !.container = <<"loading-screen">>,
                      !.calls[c].outcome = "pending"]

\* Router._handleRoute up to its await (lines 120-128, 133-135)
HandleRoute(w, c) ==
    LET path == w.calls[c].path
        matched == MatchOn(w, path)
    IN  IF matched.found
        THEN LET cur == [path |-> path, params |-> matched.params,
                         options |-> matched.route.options]
                 set == [w EXCEPT !.currentRoute = cur,
                                  !.commits = Append(w.commits, c),
                                  !.calls[c].committed = cur,
                                  !.calls[c].handler = matched.route.handler,
                                  !.calls[c].events = Append(w.calls[c].events, "handler"),
                                  !.calls[c].pc = "handler"]
             IN  Handler(set, c, matched.route.handler)
        ELSE LET noted == [w EXCEPT !.calls[c].events =
                                        Append(w.calls[c].events, "notfound")]
                 redirected == Handle404(noted, c)
             IN  IF w.calls[c].kind \in {"navigate", "redirect"}
                 THEN [redirected EXCEPT !.calls[c].pc = "routed",
                                         !.microtasks = Append(redirected.microtasks, c)]
                 ELSE [redirected EXCEPT !.calls[c].pc = "done"]

\* a slip: no try / catch around the handler
HandleRouteUncaught(outcome) == IF outcome = "threw" THEN "rejected" ELSE "fulfilled"

\* how the promise of _handleRoute settles once the handler has (lines 127-132):
\* a rejection is caught and logged
HandleRouteSettles(outcome) == "fulfilled"

\* lines 111-113 of navigate: the after-guard, with the path navigated to
AfterHooks(w, c) ==
    LET after == AfterGuard(w, w.calls[c].path)
    IN  [after EXCEPT !.calls[c].events = Append(after.calls[c].events, "after"),
                      !.calls[c].pc = "done"]

\* an activation goes on after the await it was parked at
ResumeCall(w, c) ==
    LET call == w.calls[c]
    IN  CASE call.pc = "before" ->
                IF Vetoed(call.result)
                THEN [w EXCEPT !.calls[c].pc = "done"]
                ELSE HandleRoute(
                        [w EXCEPT !.history = IF call.replace
                                              THEN ReplaceState(w.history, call.path)
                                              ELSE PushState(w.history, call.path),
                                  !.calls[c].events = Append(call.events, "history")],
                        c)
          [] call.pc = "handler" ->
                IF HandleRouteSettles(call.outcome) = "rejected"
                THEN [w EXCEPT !.calls[c].pc = "rejected"]
                ELSE LET settled == [w EXCEPT !.calls[c].events =
                                                  Append(call.events, "settled")]
                     IN  IF call.kind \in {"navigate", "redirect"}
                         THEN AfterHooks(settled, c)
                         ELSE [settled EXCEPT !.calls[c].pc = "done"]
          [] call.pc = "routed" -> AfterHooks(w, c)

\* what the rendered view leaves in the container
ViewContent(name) ==
    IF name = "renderNotebooks" THEN "notebooks-view" ELSE "settings-view"

\* AuthManager.handle401
Handle401(w) == RedirectToLogin([w EXCEPT !.user = Null])

\* how a view's render can end once the server has answered
ViewOutcomes == {"rendered", "failed", "unauthorized", "threw"}

\* the rest of NotebooksView.render / SettingsView.render: the pages it can
\* leave. rendered: the view is drawn. failed: a request failed, the error is
\* caught and drawn. unauthorized: a request was answered 401 (authenticatedFetch),
\* then as failed. threw: drawing the error threw in its turn, after the
\* container was emptied (ErrorDisplay.create) or after the error was drawn
\* (toast.error); render rejects.
ViewRenderEnds(w, c, outcome) ==
    CASE outcome = "rendered" ->
            { [w EXCEPT !.container = <<ViewContent(w.calls[c].handler)>>] }
      [] outcome = "failed" ->
            { [w EXCEPT !.container = <<"error-display">>] }
      [] outcome = "unauthorized" ->
            { [Handle401(w) EXCEPT !.container = <<"error-display">>] }
      [] outcome = "threw" ->
            { [w EXCEPT !.container = nodes] : nodes \in {<<>>, <<"error-display">>} }

\* navigations started from outside the router so far
UserCalls == Cardinality({c \in DOMAIN calls : calls[c].kind \in {"navigate", "popstate"}})

\* the page is opened at one of the paths, by a user who is logged in or not
Init ==
    /\ MatchIdle
    /\ MergeIdle
    /\ FilterIdle
    /\ ViewIdle
    /\ OpsIdle
    /\ ApiIdle
    /\ inited = FALSE
    /\ calls = <<>>
    /\ microtasks = <<>>
    /\ currentRoute = Null
    /\ \E p \in NavPaths : history = [entries |-> <<p>>, index |-> 1]
    /\ user \in {Null, SomeUser}
    /\ returnUrl = Null
    /\ href = Null
    /\ container = <<>>
    /\ isLoading = FALSE
    /\ currentView = Null
    /\ title = ""
    /\ commits = <<>>

\* App.init: the routes and guards are registered, then Router.init handles
\* the path the page was opened at
AppInit ==
    /\ ~inited
    /\ inited' = TRUE
    /\ LET registered == [World EXCEPT !.routes = AppRoutes]
           started == StartHandleRoute(registered, "init")
       IN  Becomes(HandleRoute(started, Len(started.calls)))
    /\ UNCHANGED <<lookup, mergeVars, filterVars, viewVars, opVars, apiVars>>

\* App.navigate(routeName, {id}), called from an event handler: Router.navigate
\* of the path, pushing
Navigate(routeName, id) ==
    /\ inited
    /\ microtasks = <<>>
    /\ UserCalls < MaxNav
    /\ Becomes(StartNavigate(World, PathOfRoute(routeName, id), FALSE, 0))
    /\ UNCHANGED <<inited, lookup, mergeVars, filterVars, viewVars, opVars, apiVars>>

\* the user goes back or forward to entry j: the popstate listener of Router.init
PopState(j) ==
    /\ inited
    /\ microtasks = <<>>
    /\ UserCalls < MaxNav
    /\ j \in DOMAIN history.entries
    /\ j # history.index
    /\ LET moved == [World EXCEPT !.history.index = j]
           started == StartHandleRoute(moved, "popstate")
       IN  Becomes(HandleRoute(started, Len(started.calls)))
    /\ UNCHANGED <<inited, lookup, mergeVars, filterVars, viewVars, opVars, apiVars>>

\* the oldest settled await is resumed
Resume ==
    /\ microtasks # <<>>
    /\ Becomes(ResumeCall([World EXCEPT !.microtasks = Tail(microtasks)],
                          Head(microtasks)))
    /\ UNCHANGED <<inited, lookup, mergeVars, filterVars, viewVars, opVars, apiVars>>

\* the render of the view that handler c started comes to its end
HandlerSettles(c, outcome) ==
    /\ inited
    /\ microtasks = <<>>
    /\ c \in DOMAIN calls
    /\ calls[c].pc = "handler"
    /\ calls[c].outcome = "pending"
    /\ \E w \in ViewRenderEnds(World, c, outcome) :
          Becomes([w EXCEPT !.calls[c].outcome = outcome,
                            !.microtasks = Append(w.microtasks, c)])
    /\ UNCHANGED <<inited, lookup, mergeVars, filterVars, viewVars, opVars, apiVars>>

Next ==
    \/ AppInit
    \/ \E n \in RouteNames, id \in NotebookIds : Navigate(n, id)
    \/ \E j \in 1..(MaxNav + 1) : PopState(j)
    \/ Resume
    \/ \E c \in 1..(2 * MaxNav + 2), o \in ViewOutcomes : HandlerSettles(c, o)

Spec == Init /\ [][Next]_vars


-----------------------------------------------------------------------------
(* Starting and stopping a notebook: NotebooksView._startNotebook and      *)
(* _stopNotebook, on a rendered list of one notebook (a), with the polling *)
(* tick, the status filter and the server's own changes going on around.   *)

MaxOps == 2        \* clicks on the Start and Stop buttons
MaxRenders == 2    \* card elements made, past which polling and filtering render no more

OpFilename == <<"a">>

\* what the server answers to listNotebooks / listSessions
\* a second notebook, for transitions of two notebooks at once; the server
\* holds it as srv.peer: "none" (not there), "stopped" or "running"
PeerFilename == <<"b">>

ListNotebooksResponse(srv) ==
    (IF srv.listed THEN << [filename |-> OpFilename, path |-> Null] >> ELSE <<>>)
    \o (IF srv.peer # "none" THEN << [filename |-> PeerFilename, path |-> Null] >>
        ELSE <<>>)

ListSessionsResponse(srv) ==
    (IF srv.running
     THEN << [session_id |-> SessionId(1), notebook_path |-> OpFilename,
              status |-> "running"] >>
     ELSE <<>>)
    \o (IF srv.peer = "running"
        THEN << [session_id |-> SessionId(2), notebook_path |-> PeerFilename,
                 status |-> "running"] >>
        ELSE <<>>)

\* the server after a createSession (started) or a terminateSession for id
Answered(srv, id, started) ==
    IF id = OpFilename THEN [srv EXCEPT !.running = started]
    ELSE [srv EXCEPT !.peer = IF started THEN "running" ELSE "stopped"]

\* _applyFilters on the view's data m (no search text; one notebook, so one order)
Filtered(m) ==
    CHOOSE f \in ApplyFilters(m.notebooks, <<>>, m.filterStatus, "desc") : TRUE

\* the control area _renderNotebookCards gives a notebook (lines 361-395)
Buttons(notebook) ==
    [buttons |-> IF notebook.status = "running" THEN "open-stop-delete"
                 ELSE "start-delete"]

\* _renderNotebookCards: new card elements for the filtered notebooks
RenderCards(cs, filtered) ==
    [list |-> [i \in DOMAIN filtered |->
                  [id |-> filtered[i].filename, element |-> cs.made + i,
                   actions |-> Buttons(filtered[i])]],
     made |-> cs.made + Len(filtered)]

\* _updateNotebookCards (lines 407-418): the cards are only replaced when
\* the filters leave a notebook
UpdateNotebookCards(cs, m) ==
    IF Len(Filtered(m)) > 0 THEN RenderCards(cs, Filtered(m)) ELSE cs

\* ways _fetchNotebooks(true) can go: both requests answered, listNotebooks
\* failed, listSessions failed
FetchOutcomes == {"ok", "notebooksFailed", "sessionsFailed"}

\* _fetchNotebooks(true) (lines 60-76) with _fetchSessions(true) (83-93): a
\* failure is logged and not rethrown; after a failed listSessions the
\* notebooks are merged with the sessions fetched before
FetchNotebooksSilent(m, srv, outcome) ==
    CASE outcome = "notebooksFailed" -> m
      [] outcome = "ok" ->
            [m EXCEPT !.notebooks = MergeSessionsWithNotebooks(
                                       ListNotebooksResponse(srv),
                                       ListSessionsResponse(srv)),
                      !.sessions = ListSessionsResponse(srv)]
      [] outcome = "sessionsFailed" ->
            [m EXCEPT !.notebooks = MergeSessionsWithNotebooks(
                                       ListNotebooksResponse(srv), m.sessions)]

\* container.querySelector(`[data-notebook-id="${notebookId}"]`): position of
\* the first such card, 0 if none
CardOf(cs, id) ==
    LET at == {i \in DOMAIN cs.list : cs.list[i].id = id}
    IN  IF at = {} THEN 0 ELSE Min(at)

\* this.data.notebooks.find((n) => n.filename === notebookId): position, 0 if none
NotebookOf(m, id) ==
    LET at == {i \in DOMAIN m.notebooks : m.notebooks[i].filename = id}
    IN  IF at = {} THEN 0 ELSE Min(at)

\* ProgressIndicator.setStep
SetStep(op, stepIndex) ==
    [op EXCEPT !.currentStep = stepIndex, !.steps = Append(op.steps, stepIndex)]

\* a slip: the start indicator completes one step early, at "Waiting for marimo"
LastStepShort(kind) == 2

\* the last step of the indicator: 3 of the four start steps, 2 of the three stop steps
LastStep(kind) == IF kind = "start" THEN 3 ELSE 2

\* clicks so far: the transitions begun and the stops turned away
Clicks ==
    Len(ops) + Cardinality({i \in DOMAIN toasts : toasts[i].type = "warning"})

\* the list is rendered: a is listed, with or without a running session
OpsInit ==
    /\ MatchIdle
    /\ MergeIdle
    /\ FilterIdle
    /\ NavIdle
    /\ ViewIdle
    /\ ApiIdle
    /\ \E running \in BOOLEAN :
          LET srv == [listed |-> TRUE, running |-> running, peer |-> "none"]
              m == [notebooks |-> MergeSessionsWithNotebooks(
                                     ListNotebooksResponse(srv),
                                     ListSessionsResponse(srv)),
                    sessions |-> ListSessionsResponse(srv),
                    filterStatus |-> "all"]
          IN  /\ server = srv
              /\ model = m
              /\ cards = RenderCards([list |-> <<>>, made |-> 0], Filtered(m))
    /\ ops = <<>>
    /\ toasts = <<>>
    /\ requests = <<>>
    /\ lastAction = [name |-> "render"]

OpsFrame == UNCHANGED <<matchVars, mergeVars, filterVars, navVars, viewVars, apiVars>>

\* a slip: a click is ignored while a transition of the same notebook is in flight
BeginOpGuarded(kind, id, sessionId) ==
    IF \E p \in DOMAIN ops : ops[p].id = id /\ ops[p].pc \in {"request", "timer", "refetch"}
    THEN UNCHANGED <<ops, cards, requests>>
    ELSE LET k == CardOf(cards, id)
             o == Len(ops) + 1
             made == [kind |-> kind, id |-> id, session |-> sessionId,
                      card |-> IF k = 0 THEN 0 ELSE cards.list[k].element,
                      originalContent |-> IF k = 0 THEN Null ELSE cards.list[k].actions,
                      currentStep |-> 0, steps |-> <<0>>, state |-> "running",
                      flagged |-> -1, response |-> "none", fetches |-> 0,
                      restored |-> FALSE, pc |-> "request"]
         IN  /\ ops' = Append(ops, IF k = 0 THEN made
                                   ELSE [made EXCEPT !.steps = <<0, 0>>])
             /\ cards' = IF k = 0 THEN cards
                         ELSE [cards EXCEPT !.list[k].actions = [progress |-> o]]
             /\ requests' = Append(requests,
                               [kind |-> IF kind = "start" THEN "createSession"
                                         ELSE "terminateSession",
                                op |-> o])

\* the beginning of _startNotebook (738-765) and, past its check, of
\* _stopNotebook (829-850): the progress indicator takes the place of the
\* card's control area and the request is issued
BeginOp(kind, id, sessionId) ==
    LET k == CardOf(cards, id)
        o == Len(ops) + 1
        made == [kind |-> kind, id |-> id, session |-> sessionId,
                 card |-> IF k = 0 THEN 0 ELSE cards.list[k].element,
                 originalContent |-> IF k = 0 THEN Null ELSE cards.list[k].actions,
                 currentStep |-> 0, steps |-> <<>>, state |-> "running",
                 flagged |-> -1, response |-> "none", fetches |-> 0,
                 restored |-> FALSE, pc |-> "request"]
        placed == IF k = 0 THEN made ELSE SetStep(made, 0)
    IN  /\ ops' = Append(ops, SetStep(placed, 0))
        /\ cards' = IF k = 0 THEN cards
                    ELSE [cards EXCEPT !.list[k].actions = [progress |-> o]]
        /\ requests' = Append(requests,
                          [kind |-> IF kind = "start" THEN "createSession"
                                    ELSE "terminateSession",
                           op |-> o])

\* the button of the given kind is in the control area of the card of id
ButtonShown(id, content) ==
    /\ CardOf(cards, id) # 0
    /\ cards.list[CardOf(cards, id)].actions = [buttons |-> content]

\* a click on Start: _startNotebook(notebookId)
StartNotebook(id) ==
    /\ Clicks < MaxOps
    /\ ButtonShown(id, "start-delete")
    /\ BeginOp("start", id, Null)
    /\ lastAction' = [name |-> "start", id |-> id]
    /\ UNCHANGED <<server, model, toasts>>
    /\ OpsFrame

\* a slip: the check of lines 824-827 is left out
AlwaysMatched(m, id) == TRUE

\* lines 822-824: the notebook is in the merged view and has a session id
HasMatchedSession(m, id) ==
    /\ NotebookOf(m, id) # 0
    /\ m.notebooks[NotebookOf(m, id)].session_id # Null

\* a slip: the session id is not read from the merged view
SessionIdOfNone(m, id) == Null

SessionIdOf(m, id) ==
    IF NotebookOf(m, id) # 0 THEN m.notebooks[NotebookOf(m, id)].session_id ELSE Null

\* a click on Stop: _stopNotebook(notebookId)
StopNotebook(id) ==
    /\ Clicks < MaxOps
    /\ ButtonShown(id, "open-stop-delete")
    /\ lastAction' = [name |-> "stop", id |-> id]
    /\ IF HasMatchedSession(model, id)
       THEN /\ BeginOp("stop", id, SessionIdOf(model, id))
            /\ UNCHANGED <<server, model, toasts>>
       ELSE /\ toasts' = Append(toasts, [type |-> "warning", id |-> id])
            /\ UNCHANGED <<server, model, cards, ops, requests>>
    /\ OpsFrame

\* the catch block of _startNotebook (789-803) and of _stopNotebook (869-883),
\* past the notification: where the executor goes. In _startNotebook
\* originalContent is a const of the if-block of line 754, so the catch block
\* reading it throws a ReferenceError and the promise rejects; without a card
\* it is not read. In _stopNotebook it is a let of the function, and the
\* restoration is put on a timer.
CatchEnds(op) ==
    IF op.kind = "start"
    THEN (IF op.card # 0 THEN "rejected" ELSE "done")
    ELSE (IF op.card # 0 /\ op.originalContent # Null THEN "restore" ELSE "done")

\* the request of transition o is answered
RequestResponds(o, ok) ==
    /\ o \in DOMAIN ops
    /\ ops[o].pc = "request"
    /\ lastAction' = [name |-> "response"]
    /\ IF ok
       THEN /\ server' = Answered(server, ops[o].id, ops[o].kind = "start")
            /\ ops' = [ops EXCEPT ![o] =
                          [SetStep(ops[o], 1) EXCEPT !.response = "ok", !.pc = "timer"]]
            /\ UNCHANGED toasts
       ELSE /\ ops' = [ops EXCEPT ![o] =
                          [ops[o] EXCEPT !.response = "failed", !.state = "error",
                                         !.flagged = 0, !.pc = CatchEnds(ops[o])]]
            /\ toasts' = Append(toasts, [type |-> "error", id |-> ops[o].id])
            /\ UNCHANGED server
    /\ UNCHANGED <<model, cards, requests>>
    /\ OpsFrame

\* a setTimeout of the executor runs out: the next step is set; at the last
\* one the indicator completes, success is notified and _fetchNotebooks(true)
\* is issued
TimerFires(o) ==
    /\ o \in DOMAIN ops
    /\ ops[o].pc = "timer"
    /\ lastAction' = [name |-> "timer"]
    /\ LET next == ops[o].currentStep + 1
       IN  IF next < LastStep(ops[o].kind)
           THEN /\ ops' = [ops EXCEPT ![o] = SetStep(ops[o], next)]
                /\ UNCHANGED <<toasts, requests>>
           ELSE /\ ops' = [ops EXCEPT ![o] =
                              [SetStep(ops[o], next) EXCEPT !.state = "complete",
                                                            !.fetches = ops[o].fetches + 1,
                                                            !.pc = "refetch"]]
                /\ toasts' = Append(toasts, [type |-> "success", id |-> ops[o].id])
                /\ requests' = Append(requests, [kind |-> "fetchNotebooks", op |-> o])
    /\ UNCHANGED <<server, model, cards>>
    /\ OpsFrame

\* a slip: the refresh is not silent, and its failure lands in the catch block
RefetchEndsLoud(op, outcome) ==
    IF outcome = "ok" THEN [op EXCEPT !.pc = "done"]
    ELSE [op EXCEPT !.state = "error", !.flagged = 0, !.pc = CatchEnds(op)]

\* the transition past its refresh (786-787, 866-867): _fetchNotebooks(true)
\* throws nothing, whatever became of its requests, and the executor ends
RefetchEnds(op, outcome) == [op EXCEPT !.pc = "done"]

\* the _fetchNotebooks(true) of transition o returns, then _updateNotebookCards
RefetchResponds(o, outcome) ==
    /\ o \in DOMAIN ops
    /\ ops[o].pc = "refetch"
    /\ lastAction' = [name |-> "refetched", op |-> o, outcome |-> outcome]
    /\ model' = FetchNotebooksSilent(model, server, outcome)
    /\ cards' = UpdateNotebookCards(cards, model')
    /\ ops' = [ops EXCEPT ![o] = RefetchEnds(ops[o], outcome)]
    /\ UNCHANGED <<server, toasts, requests>>
    /\ OpsFrame

\* the setTimeout of the catch block of _stopNotebook runs out (877-880): the
\* control area of the card found at the beginning gets its content back,
\* whether or not that card is still in the list
RestoreFires(o) ==
    /\ o \in DOMAIN ops
    /\ ops[o].pc = "restore"
    /\ lastAction' = [name |-> "restore"]
    /\ cards' = [cards EXCEPT !.list =
                    [i \in DOMAIN cards.list |->
                        IF cards.list[i].element = ops[o].card
                        THEN [cards.list[i] EXCEPT !.actions = ops[o].originalContent]
                        ELSE cards.list[i]]]
    /\ ops' = [ops EXCEPT ![o].restored = TRUE, ![o].pc = "done"]
    /\ UNCHANGED <<server, model, toasts, requests>>
    /\ OpsFrame

\* a tick of the polling interval, from its fetch to _updateNotebookCards
PollTick(outcome) ==
    /\ lastAction' = [name |-> "tick"]
    /\ model' = FetchNotebooksSilent(model, server, outcome)
    /\ cards' = UpdateNotebookCards(cards, model')
    /\ cards'.made <= MaxRenders
    /\ UNCHANGED <<server, ops, toasts, requests>>
    /\ OpsFrame

\* the status filter is changed (lines 505-511)
SetFilter(filterStatus) ==
    /\ filterStatus # model.filterStatus
    /\ lastAction' = [name |-> "filter"]
    /\ model' = [model EXCEPT !.filterStatus = filterStatus]
    /\ cards' = UpdateNotebookCards(cards, model')
    /\ cards'.made <= MaxRenders
    /\ UNCHANGED <<server, ops, toasts, requests>>
    /\ OpsFrame

\* the session ends, or the notebook is deleted, without this page's doing
ServerChanges ==
    /\ \/ server.running /\ server' = [server EXCEPT !.running = FALSE]
       \/ server.listed /\ server' = [server EXCEPT !.listed = FALSE]
    /\ lastAction' = [name |-> "server"]
    /\ UNCHANGED <<model, cards, ops, toasts, requests>>
    /\ OpsFrame

OpsNext ==
    \/ StartNotebook(OpFilename)
    \/ StopNotebook(OpFilename)
    \/ \E o \in 1..(MaxOps + 1), ok \in BOOLEAN : RequestResponds(o, ok)
    \/ \E o \in 1..(MaxOps + 1) : TimerFires(o)
    \/ \E o \in 1..(MaxOps + 1), outcome \in FetchOutcomes : RefetchResponds(o, outcome)
    \/ \E o \in 1..(MaxOps + 1) : RestoreFires(o)
    \/ \E outcome \in FetchOutcomes : PollTick(outcome)
    \/ \E f \in FilterChoices : SetFilter(f)
    \/ ServerChanges

SpecOps == OpsInit /\ [][OpsNext]_vars

\* two notebooks in the list, a and b, each running or not; transitions of
\* both, with no polling tick and no filter change in between
PairInit ==
    /\ MatchIdle
    /\ MergeIdle
    /\ FilterIdle
    /\ NavIdle
    /\ ViewIdle
    /\ ApiIdle
    /\ \E running \in BOOLEAN, peer \in {"stopped", "running"} :
          LET srv == [listed |-> TRUE, running |-> running, peer |-> peer]
              m == [notebooks |-> MergeSessionsWithNotebooks(
                                     ListNotebooksResponse(srv),
                                     ListSessionsResponse(srv)),
                    sessions |-> ListSessionsResponse(srv),
                    filterStatus |-> "all"]
          IN  /\ server = srv
              /\ model = m
              /\ cards = RenderCards([list |-> <<>>, made |-> 0], Filtered(m))
    /\ ops = <<>>
    /\ toasts = <<>>
    /\ requests = <<>>
    /\ lastAction = [name |-> "render"]

PairNext ==
    \/ \E id \in {OpFilename, PeerFilename} : StartNotebook(id)
    \/ \E id \in {OpFilename, PeerFilename} : StopNotebook(id)
    \/ \E o \in 1..(MaxOps + 1), ok \in BOOLEAN : RequestResponds(o, ok)
    \/ \E o \in 1..(MaxOps + 1) : TimerFires(o)
    \/ \E o \in 1..(MaxOps + 1), outcome \in FetchOutcomes : RefetchResponds(o, outcome)
    \/ \E o \in 1..(MaxOps + 1) : RestoreFires(o)

SpecPair == PairInit /\ [][PairNext]_vars

-----------------------------------------------------------------------------
(* The life of the notebooks view: App.renderNotebooks, renderNotebookDetail
   and renderSettings mounting views into the container, NotebooksView.render
   with its fetch, the retry of the error display, and the polling interval.
   A view v is views[v]: state "fetching" (render awaits _fetchNotebooks),
   "shown" or "error"; pollInterval is the id setInterval returned, 0 for
   null. intervals is the browser's timer table: [id, view, active]. *)

MaxViews == 2     \* NotebooksView objects constructed
MaxTicks == 2     \* runs of the interval callback

\* _stopPolling of view v: clearInterval and pollInterval = null
StopPolling(ivs, vs, v) ==
    IF vs[v].pollInterval # 0
    THEN [ivs |-> {IF i.id = vs[v].pollInterval THEN [i EXCEPT !.active = FALSE] ELSE i
                      : i \in ivs},
          vs |-> [vs EXCEPT ![v].pollInterval = 0]]
    ELSE [ivs |-> ivs, vs |-> vs]

\* a slip: _startPolling without its _stopPolling
StartPollingKeeps(ivs, vs, v) ==
    LET id == Cardinality(ivs) + 1
    IN  [ivs |-> ivs \cup {[id |-> id, view |-> v, active |-> TRUE]},
         vs |-> [vs EXCEPT ![v].pollInterval = id]]

\* _startPolling of view v: _stopPolling, then setInterval
StartPolling(ivs, vs, v) ==
    LET stopped == StopPolling(ivs, vs, v)
        id == Cardinality(ivs) + 1
    IN  [ivs |-> stopped.ivs \cup {[id |-> id, view |-> v, active |-> TRUE]},
         vs |-> [stopped.vs EXCEPT ![v].pollInterval = id]]

\* a slip: teardown marks the view and leaves its interval running
DestroyCurrentKeepsPolling(ivs, vs, current) ==
    IF current # 0
    THEN [ivs |-> ivs, vs |-> [vs EXCEPT ![current].destroyed = TRUE]]
    ELSE [ivs |-> ivs, vs |-> vs]

\* if (this.currentView && this.currentView.destroy) this.currentView.destroy()
DestroyCurrent(ivs, vs, current) ==
    IF current # 0
    THEN LET stopped == StopPolling(ivs, vs, current)
         IN  [ivs |-> stopped.ivs, vs |-> [stopped.vs EXCEPT ![current].destroyed = TRUE]]
    ELSE [ivs |-> ivs, vs |-> vs]

\* the page is loaded and no handler has run
ViewInit ==
    /\ ViewIdle
    /\ MatchIdle
    /\ MergeIdle
    /\ FilterIdle
    /\ NavIdle
    /\ OpsIdle
    /\ ApiIdle

ViewFrame == UNCHANGED <<matchVars, mergeVars, filterVars, navVars, opVars, apiVars>>

\* App.renderNotebooks up to the await inside NotebooksView.render
RenderNotebooks ==
    /\ Len(views) < MaxViews
    /\ LET left == DestroyCurrent(intervals, views, mounted)
       IN  /\ intervals' = left.ivs
           /\ views' = Append(left.vs, [state |-> "fetching", pollInterval |-> 0,
                                        destroyed |-> FALSE, retried |-> FALSE])
    /\ mounted' = Len(views) + 1
    /\ display' = <<"loading", Len(views) + 1>>
    /\ UNCHANGED ticks
    /\ ViewFrame

\* App.renderNotebookDetail: the container is written, nothing else
RenderNotebookDetail ==
    /\ display # <<"detail", 0>>
    /\ display' = <<"detail", 0>>
    /\ UNCHANGED <<views, mounted, intervals, ticks>>
    /\ ViewFrame

\* App.renderSettings; window.SettingsView is not part of these sources, the
\* branch without it is taken: currentView = null
RenderSettings ==
    /\ display # <<"settings", 0>>
    /\ LET left == DestroyCurrent(intervals, views, mounted)
       IN  /\ intervals' = left.ivs
           /\ views' = left.vs
    /\ mounted' = 0
    /\ display' = <<"settings", 0>>
    /\ UNCHANGED ticks
    /\ ViewFrame

\* a slip: render starts polling whether or not the fetch succeeded
RenderEndsPolling(ivs, vs, v, ok) ==
    LET started == StartPolling(ivs, [vs EXCEPT ![v].state =
                                         IF ok THEN "shown" ELSE "error"], v)
    IN  [vs |-> started.vs, ivs |-> started.ivs,
         display |-> <<IF ok THEN "notebooks" ELSE "error", v>>]

\* NotebooksView.render past its await (lines 34-45): _renderNotebooks and
\* _startPolling, or the catch block with _renderError
RenderEnds(ivs, vs, v, ok) ==
    IF ok
    THEN LET started == StartPolling(ivs, [vs EXCEPT ![v].state = "shown"], v)
         IN  [vs |-> started.vs, ivs |-> started.ivs, display |-> <<"notebooks", v>>]
    ELSE [vs |-> [vs EXCEPT ![v].state = "error"], ivs |-> ivs,
          display |-> <<"error", v>>]

\* the _fetchNotebooks() awaited by render of view v returns or throws
FetchReturns(v, ok) ==
    /\ v \in DOMAIN views
    /\ views[v].state = "fetching"
    /\ LET ended == RenderEnds(intervals, views, v, ok)
       IN  /\ views' = ended.vs
           /\ intervals' = ended.ivs
           /\ display' = ended.display
    /\ UNCHANGED <<mounted, ticks>>
    /\ ViewFrame

\* the retry button of the error display of view v: this.render(this.container)
Retry(v) ==
    /\ v \in DOMAIN views
    /\ display = <<"error", v>>
    /\ views' = [views EXCEPT ![v].state = "fetching", ![v].retried = TRUE]
    /\ display' = <<"loading", v>>
    /\ UNCHANGED <<mounted, intervals, ticks>>
    /\ ViewFrame

\* the timer of an interval that was not cleared runs out: the callback starts
TickFires ==
    /\ Len(ticks) < MaxTicks
    /\ \E i \in intervals :
          /\ i.active
          /\ ticks' = Append(ticks, [interval |-> i.id, view |-> i.view,
                                     late |-> views[i.view].destroyed,
                                     afterFailure |->
                                        \E t \in DOMAIN ticks :
                                           /\ ticks[t].interval = i.id
                                           /\ ticks[t].pc = "done"
                                           /\ ticks[t].outcome # "ok",
                                     pc |-> "fetching", outcome |-> "none",
                                     thrown |-> FALSE])
    /\ UNCHANGED <<views, mounted, display, intervals>>
    /\ ViewFrame

\* a slip: a failed tick clears its interval
TickCatchClears(ivs, tick, outcome) ==
    IF outcome = "ok" THEN ivs
    ELSE {IF i.id = tick.interval THEN [i EXCEPT !.active = FALSE] ELSE i : i \in ivs}

\* the catch of the interval callback (186-188) and of the silent fetches
\* (70-75, 87-92): the error is logged; the timer table is not touched
TickCatch(ivs, tick, outcome) == ivs

\* the callback of tick t comes to its end
TickSettles(t, outcome) ==
    /\ t \in DOMAIN ticks
    /\ ticks[t].pc = "fetching"
    /\ ticks' = [ticks EXCEPT ![t].pc = "done", ![t].outcome = outcome]
    /\ intervals' = TickCatch(intervals, ticks[t], outcome)
    /\ UNCHANGED <<views, mounted, display>>
    /\ ViewFrame

ViewNext ==
    \/ RenderNotebooks
    \/ RenderNotebookDetail
    \/ RenderSettings
    \/ \E v \in 1..MaxViews + 1, ok \in BOOLEAN : FetchReturns(v, ok)
    \/ \E v \in 1..MaxViews + 1 : Retry(v)
    \/ TickFires
    \/ \E t \in 1..MaxTicks + 1, outcome \in FetchOutcomes : TickSettles(t, outcome)

SpecView == ViewInit /\ [][ViewNext]_vars

-----------------------------------------------------------------------------
(* The API client and the session: APIClient.request and uploadFile go
   through authenticatedFetch; AuthManager.getCurrentUser, login and logout
   and APIClient.healthCheck call fetch themselves. session holds
   AuthManager.user, the sessionStorage item duckpond_user (stored), the
   return URL, the document load asked for (href) and the location. Each
   call is recorded with the status answered, whether it threw, and the
   session as the call left it. *)

MaxCalls == 3     \* calls made

Statuses == {200, 401, 500}

\* AuthManager._clearUserFromStorage
ClearUserFromStorage(s) == [s EXCEPT !.user = Null, !.stored = Null]

\* AuthManager._saveUserToStorage
SaveUserToStorage(s, u) == [s EXCEPT !.user = u, !.stored = u]

\* AuthManager.handle401
AuthHandle401(s) == RedirectToLogin(ClearUserFromStorage(s))

\* a slip: authenticatedFetch hands a 401 response back to its caller
AuthenticatedFetchPassesOn(s, status) == [s |-> s, threw |-> FALSE]

\* authenticatedFetch: the session it leaves and whether it threw
AuthenticatedFetch(s, status) ==
    IF status = 401 THEN [s |-> AuthHandle401(s), threw |-> TRUE]
    ELSE [s |-> s, threw |-> FALSE]

\* AuthManager.getCurrentUser
GetCurrentUser(s, status) ==
    CASE status = 401 -> [s |-> ClearUserFromStorage(s), threw |-> TRUE]
      [] status = 500 -> [s |-> s, threw |-> TRUE]
      [] status = 200 -> [s |-> IF s.user # Null THEN SaveUserToStorage(s, s.user) ELSE s,
                          threw |-> FALSE]

Called(name, status, r) ==
    [name |-> name, status |-> status, threw |-> r.threw, left |-> r.s]

\* the page is open, with or without a stored user
ApiInit ==
    /\ \E u \in {Null, SomeUser}, p \in {NotebooksPath, LoginPath, RootPath} :
          session = [user |-> u, stored |-> u, returnUrl |-> Null, href |-> Null,
                     history |-> [entries |-> <<p>>, index |-> 1]]
    /\ apiCalls = <<>>
    /\ MatchIdle
    /\ MergeIdle
    /\ FilterIdle
    /\ NavIdle
    /\ ViewIdle
    /\ OpsIdle

ApiFrame == UNCHANGED <<matchVars, mergeVars, filterVars, navVars, viewVars, opVars>>

\* APIClient.request (get, post, put, delete and the methods built on them)
\* and APIClient.uploadFile: authenticatedFetch, then !response.ok throws
ApiRequest(name, status) ==
    /\ Len(apiCalls) < MaxCalls
    /\ LET r == AuthenticatedFetch(session, status)
           ended == [r EXCEPT !.threw = r.threw \/ status # 200]
       IN  /\ session' = r.s
           /\ apiCalls' = Append(apiCalls, Called(name, status, ended))
    /\ ApiFrame

\* AuthManager.getCurrentUser called by itself
CurrentUser(status) ==
    /\ Len(apiCalls) < MaxCalls
    /\ LET r == GetCurrentUser(session, status)
       IN  /\ session' = r.s
           /\ apiCalls' = Append(apiCalls, Called("getCurrentUser", status, r))
    /\ ApiFrame

\* AuthManager.requireAuth
RequireAuth(status) ==
    /\ Len(apiCalls) < MaxCalls
    /\ IF session.user = Null
       THEN /\ session' = RedirectToLogin(session)
            /\ apiCalls' = Append(apiCalls,
                              [name |-> "requireAuth", status |-> 0, threw |-> FALSE,
                               left |-> session'])
       ELSE LET r == GetCurrentUser(session, status)
            IN  /\ session' = IF r.threw THEN RedirectToLogin(r.s) ELSE r.s
                /\ apiCalls' = Append(apiCalls, Called("getCurrentUser", status, r))
    /\ ApiFrame

\* AuthManager.login
Login(status) ==
    /\ Len(apiCalls) < MaxCalls
    /\ LET r == IF status = 200
                THEN [s |-> SaveUserToStorage(session, SomeUser), threw |-> FALSE]
                ELSE [s |-> session, threw |-> TRUE]
       IN  /\ session' = r.s
           /\ apiCalls' = Append(apiCalls, Called("login", status, r))
    /\ ApiFrame

\* AuthManager.logout, up to the clearing of the user in its finally block
Logout(status) ==
    /\ Len(apiCalls) < MaxCalls
    /\ session' = ClearUserFromStorage(session)
    /\ apiCalls' = Append(apiCalls,
                      Called("logout", status, [s |-> session', threw |-> FALSE]))
    /\ ApiFrame

\* a slip: the return path is read and left in sessionStorage
GetReturnUrlKeeps(s) ==
    [s |-> s, returned |-> IF s.returnUrl # Null THEN s.returnUrl ELSE AppPath]

\* AuthManager.getReturnUrl: the stored path or '/app', and the item removed
GetReturnUrl(s) ==
    [s |-> [s EXCEPT !.returnUrl = Null],
     returned |-> IF s.returnUrl # Null THEN s.returnUrl ELSE AppPath]

\* the login page asks where to go: authManager.getReturnUrl()
ReturnUrl ==
    /\ Len(apiCalls) < MaxCalls
    /\ LET r == GetReturnUrl(session)
       IN  /\ session' = r.s
           /\ apiCalls' = Append(apiCalls,
                             [name |-> "getReturnUrl", status |-> 0, threw |-> FALSE,
                              left |-> r.s, returned |-> r.returned])
    /\ ApiFrame

ApiNext ==
    \/ ReturnUrl
    \/ \E name \in {"request", "uploadFile"}, status \in Statuses : ApiRequest(name, status)
    \/ \E status \in Statuses : CurrentUser(status)
    \/ \E status \in Statuses : RequireAuth(status)
    \/ \E status \in Statuses : Login(status)
    \/ \E status \in Statuses : Logout(status)

SpecApi == ApiInit /\ [][ApiNext]_vars

-----------------------------------------------------------------------------
(* One _fetchNotebooks call, request by request: it awaits listNotebooks,
   stores the response, then _fetchSessions awaits listSessions, stores the
   response, and the two are merged and filtered. The calls of the polling
   interval are silent and are followed by _updateNotebookCards; the others
   (render, the refresh after a notebook is created or deleted) rethrow.
   Calls can overlap. A call is a tick [pc, silent, notebooks, sessions]: pc
   is the request it awaits ("notebooks", "sessions"), "done" or "thrown";
   notebooks and sessions are what the server answered to its requests,
   taken when the request was issued. requests is the log of requests
   issued and answered, in order; server changes on its own in between.
   The cards are left out: of _updateNotebookCards the model keeps its
   _applyFilters. *)

MaxPolls == 2     \* _fetchNotebooks calls started

Logged(t, kind, event) == [tick |-> t, kind |-> kind, event |-> event]

\* a slip: both requests are issued at the start of the tick
BeginTickBoth(t, srv) ==
    [tick |-> [pc |-> "notebooks", silent |-> TRUE,
               notebooks |-> ListNotebooksResponse(srv),
               sessions |-> ListSessionsResponse(srv)],
     log |-> <<Logged(t, "notebooks", "issued"), Logged(t, "sessions", "issued")>>]

\* the interval callback up to its first await: window.api.listNotebooks()
BeginTick(t, srv) ==
    [tick |-> [pc |-> "notebooks", silent |-> TRUE,
               notebooks |-> ListNotebooksResponse(srv),
               sessions |-> Null],
     log |-> <<Logged(t, "notebooks", "issued")>>]

\* lines 63-66: the response is stored as it came
NotebooksArrived(m, response) == [m EXCEPT !.notebooks = response]

\* a slip: the merge runs before the sessions are stored
SessionsArrivedMergeFirst(m, response, ok) ==
    [m EXCEPT !.notebooks = MergeSessionsWithNotebooks(m.notebooks, m.sessions),
              !.sessions = IF ok THEN response ELSE m.sessions]

\* a slip: a failed listSessions leaves no sessions
SessionsArrivedClears(m, response, ok) ==
    LET stored == IF ok THEN response ELSE <<>>
    IN  [m EXCEPT !.sessions = stored,
                  !.notebooks = MergeSessionsWithNotebooks(m.notebooks, stored)]

\* _fetchSessions(true) returning into _fetchNotebooks (lines 85-92, 67):
\* the sessions are stored unless the request failed, then merged
SessionsArrived(m, response, ok) ==
    LET stored == IF ok THEN response ELSE m.sessions
    IN  [m EXCEPT !.sessions = stored,
                  !.notebooks = MergeSessionsWithNotebooks(m.notebooks, stored)]

\* _applyFilters (line 69, and line 411 of _updateNotebookCards)
Refiltered(m) == [m EXCEPT !.filteredNotebooks = Filtered(m)]

\* the list has been rendered and the interval is running; since the list
\* was fetched the second notebook has been created or deleted on the server
TicksInit ==
    /\ MatchIdle
    /\ MergeIdle
    /\ FilterIdle
    /\ NavIdle
    /\ ApiIdle
    /\ views = <<>>
    /\ mounted = 0
    /\ display = <<"none", 0>>
    /\ intervals = {}
    /\ cards = <<>>
    /\ ops = <<>>
    /\ toasts = <<>>
    /\ lastAction = [name |-> "none"]
    /\ \E running \in BOOLEAN, peer \in {"none", "stopped"} :
          LET srv == [listed |-> TRUE, running |-> running, peer |-> peer]
              was == [srv EXCEPT !.peer = IF peer = "none" THEN "stopped" ELSE "none"]
              merged == MergeSessionsWithNotebooks(ListNotebooksResponse(was),
                                                   ListSessionsResponse(was))
          IN  /\ server = srv
              /\ model = Refiltered([notebooks |-> merged,
                                     sessions |-> ListSessionsResponse(was),
                                     filteredNotebooks |-> <<>>,
                                     filterStatus |-> "all"])
    /\ ticks = <<>>
    /\ requests = <<>>

TicksFrame ==
    UNCHANGED <<matchVars, mergeVars, filterVars, navVars, apiVars, views, mounted,
                display, intervals, cards, ops, toasts, lastAction>>

\* the interval timer runs out
TickStarts ==
    /\ Len(ticks) < MaxPolls
    /\ LET begun == BeginTick(Len(ticks) + 1, server)
       IN  /\ ticks' = Append(ticks, begun.tick)
           /\ requests' = requests \o begun.log
    /\ UNCHANGED <<server, model>>
    /\ TicksFrame

\* _fetchNotebooks() is called without silent (lines 34, 682, 714)
FetchStarts ==
    /\ Len(ticks) < MaxPolls
    /\ LET begun == BeginTick(Len(ticks) + 1, server)
       IN  /\ ticks' = Append(ticks, [begun.tick EXCEPT !.silent = FALSE])
           /\ requests' = requests \o begun.log
    /\ UNCHANGED <<server, model>>
    /\ TicksFrame

\* the listNotebooks of tick t is answered, or fails. Answered: the response
\* is stored and listSessions is issued. Failed: the catch block of lines
\* 70-75; a silent call returns to the interval callback, which goes on to
\* _updateNotebookCards, another call rethrows
NotebooksArrive(t, ok) ==
    /\ t \in DOMAIN ticks
    /\ ticks[t].pc = "notebooks"
    /\ IF ok
       THEN /\ model' = NotebooksArrived(model, ticks[t].notebooks)
            /\ ticks' = [ticks EXCEPT ![t].pc = "sessions",
                                      ![t].sessions = ListSessionsResponse(server)]
            /\ requests' = requests \o << Logged(t, "notebooks", "arrived"),
                                           Logged(t, "sessions", "issued") >>
       ELSE /\ ticks' = [ticks EXCEPT ![t].pc = IF ticks[t].silent THEN "done"
                                                ELSE "thrown"]
            /\ requests' = Append(requests, Logged(t, "notebooks", "failed"))
            /\ model' = IF ticks[t].silent THEN Refiltered(model) ELSE model
    /\ UNCHANGED server
    /\ TicksFrame

\* the listSessions of tick t is answered, or fails. A failure is rethrown
\* by _fetchSessions and by _fetchNotebooks unless the call is silent;
\* otherwise lines 67-69 merge and filter, and the interval callback goes on
\* to _updateNotebookCards
SessionsArrive(t, ok) ==
    /\ t \in DOMAIN ticks
    /\ ticks[t].pc = "sessions"
    /\ IF ok \/ ticks[t].silent
       THEN /\ model' = Refiltered(SessionsArrived(model, ticks[t].sessions, ok))
            /\ ticks' = [ticks EXCEPT ![t].pc = "done"]
       ELSE /\ model' = model
            /\ ticks' = [ticks EXCEPT ![t].pc = "thrown"]
    /\ requests' = Append(requests,
                      Logged(t, "sessions", IF ok THEN "arrived" ELSE "failed"))
    /\ UNCHANGED server
    /\ TicksFrame

\* the session starts or ends on the server
SessionChanges ==
    /\ server' = [server EXCEPT !.running = ~server.running]
    /\ UNCHANGED <<model, ticks, requests>>
    /\ TicksFrame

TicksNext ==
    \/ TickStarts
    \/ FetchStarts
    \/ \E t \in 1..(MaxPolls + 1), ok \in BOOLEAN : NotebooksArrive(t, ok)
    \/ \E t \in 1..(MaxPolls + 1), ok \in BOOLEAN : SessionsArrive(t, ok)
    \/ SessionChanges

SpecTicks == TicksInit /\ [][TicksNext]_vars

-----------------------------------------------------------------------------
(* One NotebooksView object under any order of calls of render (the retry
   button calls it too), _startPolling and destroy. views holds the one
   view; its field pending counts the render calls that await their fetch.
   lastAction names the call of the last step. *)

MaxPending == 2   \* render calls awaiting their fetch at once
MaxTimers == 3    \* setInterval calls

\* the view has been constructed and mounted, render has not been called
TimerInit ==
    /\ MatchIdle
    /\ MergeIdle
    /\ FilterIdle
    /\ NavIdle
    /\ ApiIdle
    /\ server = <<>>
    /\ model = <<>>
    /\ cards = <<>>
    /\ ops = <<>>
    /\ toasts = <<>>
    /\ requests = <<>>
    /\ ticks = <<>>
    /\ views = << [state |-> "new", pollInterval |-> 0, destroyed |-> FALSE,
                   retried |-> FALSE, pending |-> 0] >>
    /\ mounted = 1
    /\ display = <<"none", 0>>
    /\ intervals = {}
    /\ lastAction = [name |-> "none"]

TimerFrame ==
    UNCHANGED <<matchVars, mergeVars, filterVars, navVars, apiVars, server, model,
                cards, ops, toasts, requests, ticks, mounted>>

\* render(container) up to its await (lines 26-34); retry tells whether the
\* retry button of the error display made the call
CallRender(retry) ==
    /\ views[1].pending < MaxPending
    /\ retry => display = <<"error", 1>>
    /\ views' = [views EXCEPT ![1].state = "fetching",
                              ![1].pending = views[1].pending + 1,
                              ![1].retried = views[1].retried \/ retry]
    /\ display' = <<"loading", 1>>
    /\ lastAction' = [name |-> "render", retry |-> retry]
    /\ UNCHANGED intervals
    /\ TimerFrame

\* the fetch of a render call returns or throws, and render goes on
CallRenderEnds(ok) ==
    /\ views[1].pending > 0
    /\ ok => Cardinality(intervals) < MaxTimers
    /\ LET ended == RenderEnds(intervals, views, 1, ok)
       IN  /\ views' = [ended.vs EXCEPT ![1].pending = views[1].pending - 1]
           /\ intervals' = ended.ivs
           /\ display' = ended.display
    /\ lastAction' = [name |-> "rendered", ok |-> ok]
    /\ TimerFrame

\* _startPolling()
CallStartPolling ==
    /\ Cardinality(intervals) < MaxTimers
    /\ LET started == StartPolling(intervals, views, 1)
       IN  /\ views' = started.vs
           /\ intervals' = started.ivs
    /\ lastAction' = [name |-> "startPolling", running |-> views[1].pollInterval # 0]
    /\ UNCHANGED display
    /\ TimerFrame

\* destroy()
CallDestroy ==
    /\ LET left == DestroyCurrent(intervals, views, 1)
       IN  /\ views' = left.vs
           /\ intervals' = left.ivs
    /\ lastAction' = [name |-> "destroy", running |-> views[1].pollInterval # 0]
    /\ UNCHANGED display
    /\ TimerFrame

TimerNext ==
    \/ \E retry \in BOOLEAN : CallRender(retry)
    \/ \E ok \in BOOLEAN : CallRenderEnds(ok)
    \/ CallStartPolling
    \/ CallDestroy

SpecTimer == TimerInit /\ [][TimerNext]_vars

-----------------------------------------------------------------------------
(* The create modal of the notebooks view: _showCreateModal, _hideModal,
   _createNotebook and _showModalError, while the view stays in the page.
   display is the part of the container the modal flow touches: active is
   the class of #create-modal, input the value of #notebook-name, error the
   #create-error element, loading the data-loading attribute of the
   #modal-create button in the page, and gen counts the times
   _renderNotebooks has replaced all of them. A _createNotebook call is an
   op [pc, name, gen]: pc is the request it awaits ("create", "notebooks",
   "sessions") or "done", gen the generation of the button it took at its
   start. server is the list of notebook files; no session is running.
   requests logs the createNotebook requests issued. *)

MaxCreates == 2     \* createNotebook requests issued

PySuffix == <<".", "p", "y">>

\* what the user may have typed into #notebook-name
TypedNames ==
    { <<>>, <<" ">>, <<"a">>, PySuffix, <<"a">> \o PySuffix,
      <<" ", "a">> \o PySuffix \o <<" ">> }

\* String.prototype.trim
RECURSIVE Trim(_)
Trim(s) ==
    IF s = <<>> THEN s
    ELSE IF Head(s) = " " THEN Trim(Tail(s))
    ELSE IF s[Len(s)] = " " THEN Trim(SubSeq(s, 1, Len(s) - 1))
    ELSE s

\* error.message of a failed request; the empty one takes the fallback
Messages == {"detail", ""}

\* the modal and its button as _renderNotebooks writes them (lines 289-320)
FreshModal(gen) ==
    [active |-> FALSE, input |-> <<>>, error |-> [hidden |-> TRUE, text |-> ""],
     loading |-> FALSE, gen |-> gen]

ShowModalError(d, message) ==
    [d EXCEPT !.error = [hidden |-> FALSE, text |-> message]]

\* a slip: any name that is not empty passes
ValidationAnyName(name) ==
    IF name = <<>> THEN "Please enter a notebook name" ELSE ""

\* the validation of _createNotebook: the message it shows, "" when the
\* name passes
Validation(name) ==
    IF name = <<>> THEN "Please enter a notebook name"
    ELSE IF ~EndsWith(name, PySuffix) THEN "Notebook name must end with .py"
    ELSE ""

\* ButtonLoadingState.hide on the button the call took at its start
ButtonHidden(d, op) ==
    IF op.gen = d.gen THEN [d EXCEPT !.loading = FALSE] ELSE d

\* the catch block of _createNotebook, the toast apart
CreateCaught(d, op, message) ==
    ButtonHidden(ShowModalError(d, IF message # "" THEN message
                                   ELSE "Failed to create notebook"), op)

Files(srv) == [i \in DOMAIN srv |-> [filename |-> srv[i], path |-> Null]]

CreateInit ==
    /\ MatchIdle
    /\ MergeIdle
    /\ FilterIdle
    /\ NavIdle
    /\ ApiIdle
    /\ views = <<>>
    /\ mounted = 0
    /\ intervals = {}
    /\ ticks = <<>>
    /\ cards = <<>>
    /\ \E srv \in {<<>>, << <<"a">> \o PySuffix >>} :
          /\ server = srv
          /\ model = Refiltered([notebooks |-> MergeSessionsWithNotebooks(Files(srv), <<>>),
                                 sessions |-> <<>>,
                                 filteredNotebooks |-> <<>>,
                                 filterStatus |-> "all"])
    /\ display = FreshModal(0)
    /\ ops = <<>>
    /\ toasts = <<>>
    /\ requests = <<>>
    /\ lastAction = [name |-> "none"]

CreateFrame ==
    UNCHANGED <<matchVars, mergeVars, filterVars, navVars, apiVars, views, mounted,
                intervals, ticks, cards>>

\* _showCreateModal: the New Notebook button or the link of the empty list
ShowCreateModal ==
    /\ display' = [display EXCEPT !.active = TRUE, !.input = <<>>,
                                  !.error.hidden = TRUE]
    /\ lastAction' = [name |-> "showCreateModal"]
    /\ UNCHANGED <<server, model, ops, toasts, requests>>
    /\ CreateFrame

\* the user types into the input of the open modal
TypeName(name) ==
    /\ display.active
    /\ display' = [display EXCEPT !.input = name]
    /\ lastAction' = [name |-> "type"]
    /\ UNCHANGED <<server, model, ops, toasts, requests>>
    /\ CreateFrame

\* _hideModal("create"): the close button, Cancel, or a click on the overlay
HideModal ==
    /\ display.active
    /\ display' = [display EXCEPT !.active = FALSE]
    /\ lastAction' = [name |-> "hideModal"]
    /\ UNCHANGED <<server, model, ops, toasts, requests>>
    /\ CreateFrame

\* _createNotebook up to its first await (lines 657-679): the Create button,
\* or Enter in the input
CreateNotebook ==
    /\ display.active
    /\ LET name == Trim(display.input)
           message == Validation(name)
       IN  IF message # ""
           THEN /\ display' = ShowModalError(display, message)
                /\ lastAction' = [name |-> "createNotebook", requested |-> FALSE]
                /\ UNCHANGED <<ops, requests>>
           ELSE /\ Len(ops) < MaxCreates
                /\ display' = [display EXCEPT !.loading = TRUE]
                /\ ops' = Append(ops, [pc |-> "create", name |-> name,
                                       gen |-> display.gen])
                /\ requests' = Append(requests, [kind |-> "createNotebook",
                                                 filename |-> name])
                /\ lastAction' = [name |-> "createNotebook", requested |-> TRUE]
    /\ UNCHANGED <<server, model, toasts>>
    /\ CreateFrame

\* the catch block (lines 695-700) for call o
Caught(o, message, during) ==
    /\ display' = CreateCaught(display, ops[o], message)
    /\ toasts' = Append(toasts, [kind |-> "error", text |-> "Failed to create notebook"])
    /\ ops' = [ops EXCEPT ![o].pc = "done"]
    /\ lastAction' = [name |-> "caught", call |-> o, during |-> during]

\* the createNotebook request is answered: the file is created, or the
\* request fails with a message
CreateResponds(o, ok, message) ==
    /\ o \in DOMAIN ops
    /\ ops[o].pc = "create"
    /\ IF ok
       THEN /\ \A i \in DOMAIN server : server[i] # ops[o].name
            /\ server' = Append(server, ops[o].name)
            /\ ops' = [ops EXCEPT ![o].pc = "notebooks"]
            /\ lastAction' = [name |-> "createResponded", call |-> o]
            /\ UNCHANGED <<display, toasts>>
       ELSE /\ Caught(o, message, "create")
            /\ UNCHANGED server
    /\ UNCHANGED <<model, requests>>
    /\ CreateFrame

\* listNotebooks of the refresh (line 682 into lines 62-63) is answered
RefreshNotebooks(o, ok, message) ==
    /\ o \in DOMAIN ops
    /\ ops[o].pc = "notebooks"
    /\ IF ok
       THEN /\ model' = NotebooksArrived(model, Files(server))
            /\ ops' = [ops EXCEPT ![o].pc = "sessions"]
            /\ lastAction' = [name |-> "refreshNotebooks", call |-> o]
            /\ UNCHANGED <<display, toasts>>
       ELSE /\ Caught(o, message, "refresh")
            /\ UNCHANGED model
    /\ UNCHANGED <<server, requests>>
    /\ CreateFrame

\* listSessions of the refresh is answered; on success the call goes on to
\* its end (lines 67-69, 683-694)
RefreshSessions(o, ok, message) ==
    /\ o \in DOMAIN ops
    /\ ops[o].pc = "sessions"
    /\ IF ok
       THEN /\ model' = Refiltered(SessionsArrived(model, <<>>, TRUE))
            /\ display' = FreshModal(display.gen + 1)
            /\ toasts' = Append(toasts, [kind |-> "success", text |-> ops[o].name])
            /\ ops' = [ops EXCEPT ![o].pc = "done"]
            /\ lastAction' = [name |-> "created", call |-> o,
                              navigate |-> ops[o].name]
       ELSE /\ Caught(o, message, "refresh")
            /\ UNCHANGED model
    /\ UNCHANGED <<server, requests>>
    /\ CreateFrame

CreateNext ==
    \/ ShowCreateModal
    \/ \E name \in TypedNames : TypeName(name)
    \/ HideModal
    \/ CreateNotebook
    \/ \E o \in 1..MaxCreates, ok \in BOOLEAN, message \in Messages :
          CreateResponds(o, ok, message)
    \/ \E o \in 1..MaxCreates, ok \in BOOLEAN, message \in Messages :
          RefreshNotebooks(o, ok, message)
    \/ \E o \in 1..MaxCreates, ok \in BOOLEAN, message \in Messages :
          RefreshSessions(o, ok, message)

SpecCreate == CreateInit /\ [][CreateNext]_vars

-----------------------------------------------------------------------------
(* Route matching: the claims.                                             *)

Accepts(route, path) == RegexMatch(route.pattern, path).ok

\* the routes of the looked-up table that accept the looked-up path
Accepting == {i \in DOMAIN lookup.routes : Accepts(lookup.routes[i], lookup.path)}

\* C5: _matchRoute returns the first route, in registration order, whose matcher
\* accepts the path, and no match only when no registered route accepts it.
C5_FirstMatchWins ==
    lookup.asked =>
        IF Accepting = {}
        THEN ~lookup.result.found
        ELSE /\ lookup.result.found
             /\ lookup.result.index = Min(Accepting)
             /\ lookup.result.route = lookup.routes[Min(Accepting)]

\* a lookup that two registered routes accept, answered with the earlier one
C5_Witness ==
    /\ lookup.asked
    /\ Cardinality(Accepting) >= 2
    /\ lookup.result.found
    /\ lookup.result.index = 1
    /\ lookup.routes[1].path # lookup.routes[2].path

GroupCount(pattern) == Cardinality({i \in DOMAIN pattern : pattern[i] = GroupTok})

Distinct(s) == \A i, j \in DOMAIN s : s[i] = s[j] => i = j

\* the i-th placeholder name of the matched route is bound to the i-th capture
BoundInOrder ==
    LET r == lookup.result.route
        m == RegexMatch(r.pattern, lookup.path)
    IN  /\ Len(m.groups) = Len(r.paramNames)
        /\ \A i \in DOMAIN r.paramNames :
              lookup.result.params[r.paramNames[i]] = m.groups[i]

GroupsEqualNames ==
    \A i \in DOMAIN routes : GroupCount(routes[i].pattern) = Len(routes[i].paramNames)

RECURSIVE SegmentsFrom(_, _, _)
SegmentsFrom(s, i, cur) ==
    IF i > Len(s) THEN <<cur>>
    ELSE IF s[i] = Slash THEN <<cur>> \o SegmentsFrom(s, i + 1, <<>>)
    ELSE SegmentsFrom(s, i + 1, Append(cur, s[i]))

Segments(s) == SegmentsFrom(s, 1, <<>>)

IsPlaceholder(seg) ==
    /\ Len(seg) >= 2
    /\ seg[1] = Colon
    /\ \A i \in 2..Len(seg) : seg[i] \in WordChars

IsLiteral(seg) == \A i \in DOMAIN seg : seg[i] # Colon

\* a template made of literal segments and :name placeholders
WellFormed(template) ==
    \A k \in DOMAIN Segments(template) :
        IsLiteral(Segments(template)[k]) \/ IsPlaceholder(Segments(template)[k])

\* whole-path correspondence, segment by segment
Corresponds(template, path) ==
    LET ts == Segments(template)
        ps == Segments(path)
    IN  /\ Len(ts) = Len(ps)
        /\ \A k \in DOMAIN ts :
              IF IsPlaceholder(ts[k]) THEN Len(ps[k]) >= 1 ELSE ps[k] = ts[k]

\* C7 as stated: a template accepts a path only by whole-path correspondence:
\* literal segments equal, placeholders one or more non-slash characters,
\* trailing-slash differences and empty placeholder segments rejected.
C7_WholePathOnly ==
    (lookup.asked /\ lookup.result.found /\ WellFormed(lookup.result.route.path))
        => Corresponds(lookup.result.route.path, lookup.path)

-----------------------------------------------------------------------------
(* Merge and filters: the claims.                                          *)

\* filename is the session path or a suffix of it
PathNamesFile(notebook_path, filename) ==
    \E k \in 0..Len(notebook_path) :
        SubSeq(notebook_path, k + 1, Len(notebook_path)) = filename

\* the sessions of the response whose path names the definition's file
SessionsOf(def) ==
    {j \in DOMAIN fetched.sessions :
        PathNamesFile(fetched.sessions[j].notebook_path, def.filename)}

\* C8: after a merge every definition carries the id, the status and the UI URL
\* of the first session of the fetched list whose notebook_path is its file name
\* or ends with it, a definition with no such session is stopped with no id and
\* no URL, and the merged list is the fetched definitions in the same order.
C8_MergePairsFirstSession ==
    data.merged =>
        /\ Len(data.notebooks) = Len(fetched.notebooks)
        /\ \A i \in DOMAIN fetched.notebooks :
              LET def == fetched.notebooks[i]
                  n == data.notebooks[i]
              IN  /\ n.filename = def.filename
                  /\ n.path = def.path
                  /\ IF SessionsOf(def) = {}
                     THEN n.session_id = Null /\ n.status = "stopped" /\ n.url = Null
                     ELSE LET s == fetched.sessions[Min(SessionsOf(def))]
                          IN  /\ n.session_id = s.session_id
                              /\ n.status = s.status
                              /\ n.url = <<"/notebooks/sessions/", "s",
                                           Min(SessionsOf(def)), "/ui">>

\* definitions a and b, sessions s1 (stopping) and s2 (running) both of x/a:
\* a is paired with s1, b is stopped
C8_Witness ==
    /\ data.merged
    /\ Len(fetched.sessions) = 2
    /\ fetched.sessions[1].notebook_path = <<"x", "/", "a">>
    /\ fetched.sessions[2].notebook_path = <<"x", "/", "a">>
    /\ data.notebooks =
         << [filename |-> <<"a">>, path |-> Null, session_id |-> <<"s", 1>>,
             status |-> "stopping", url |-> <<"/notebooks/sessions/", "s", 1, "/ui">>],
            [filename |-> <<"b">>, path |-> Null, session_id |-> Null,
             status |-> "stopped", url |-> Null] >>

\* the file name contains the query, letter case ignored
ContainsIgnoringCase(filename, query) ==
    \E k \in 0..(Len(filename) - Len(query)) :
        \A i \in DOMAIN query : LowerChar(filename[k + i]) = LowerChar(query[i])

PassesFilters(n, in) ==
    /\ ContainsIgnoringCase(n.filename, in.searchQuery)
    /\ in.filterStatus = "active" => n.status = "running"
    /\ in.filterStatus = "idle" => n.status # "running"

\* a's file name comes strictly before b's, letter case ignored
NameBefore(a, b) == StrLess(ToLowerCase(a.filename), ToLowerCase(b.filename))

\* C9: after _applyFilters, filteredNotebooks holds exactly the notebooks whose
\* file name contains the query case-insensitively and that pass the status
\* filter, each once, ordered by (lower-cased) file name in the active order.
C9_FiltersExact ==
    \A k \in DOMAIN filterOut :
        filterOut[k].done =>
            LET in == filterIn[k]
                out == filterOut[k].list
                pass == {n \in Range(in.notebooks) : PassesFilters(n, in)}
            IN  /\ Range(out) = pass
                /\ Len(out) = Cardinality(pass)
                /\ \A i, j \in DOMAIN out :
                      i < j => IF in.sortOrder = "asc"
                               THEN ~NameBefore(out[j], out[i])
                               ELSE ~NameBefore(out[i], out[j])

\* query "a" over ba and A (both stopped), filter idle, ascending: both are
\* kept, A before ba
C9_Witness ==
    /\ filterOut[1].done
    /\ filterIn[1].searchQuery = <<"a">>
    /\ filterIn[1].filterStatus = "idle"
    /\ filterIn[1].sortOrder = "asc"
    /\ Len(filterIn[1].notebooks) = 2
    /\ filterIn[1].notebooks[1].filename = <<"b", "a">>
    /\ filterOut[1].list = << [filename |-> <<"A">>, status |-> "stopped"],
                              [filename |-> <<"b", "a">>, status |-> "stopped"] >>

Reverse(s) == [i \in DOMAIN s |-> s[Len(s) + 1 - i]]

\* C10 as stated: over the same set of notebooks, query and status filter, the
\* ascending list is the reverse of the descending list, and the list of one
\* order does not depend on the order of the input.
C10_OrderReversesAndIsCanonical ==
    (filterOut[1].done /\ filterOut[2].done) =>
        IF filterIn[1].sortOrder = filterIn[2].sortOrder
        THEN filterOut[1].list = filterOut[2].list
        ELSE filterOut[1].list = Reverse(filterOut[2].list)

-----------------------------------------------------------------------------
(* Navigation: the claims.                                                 *)

IsNavigate(call) == call.kind \in {"navigate", "redirect"}

\* C1: a navigate call whose before-guard returned false neither pushes nor
\* replaces a history entry, leaves Router.currentRoute as it was, invokes no
\* handler, does not modify the container and runs no after-guard: the guard
\* left history, currentRoute and container as it found them, nothing but
\* the veto is recorded for the call, and the step in which the call returns
\* leaves the three unchanged.
C1_VetoHasNoEffect ==
    [][\A c \in DOMAIN calls' :
          (IsNavigate(calls'[c]) /\ calls'[c].result = FALSE) =>
             /\ calls'[c].guardSaw[2] = calls'[c].guardSaw[1]
             /\ calls'[c].events = <<"vetoed">>
             /\ calls'[c].committed = Null
             /\ (c \in DOMAIN calls /\ calls[c].pc = "before" /\ calls'[c].pc # "before")
                   => /\ calls'[c].pc = "done"
                      /\ history' = history
                      /\ currentRoute' = currentRoute
                      /\ container' = container]_vars

\* a vetoed call has returned, on a page that has a current route, a second
\* history entry and a container that is not empty
C1_Witness ==
    \E c \in DOMAIN calls :
       /\ calls[c].kind = "navigate"
       /\ calls[c].result = FALSE
       /\ calls[c].pc = "done"
       /\ currentRoute # Null
       /\ container # <<>>
       /\ Len(history.entries) > 1

\* the navigate calls that the _handle404 of activation c made
Children(c) == {d \in DOMAIN calls : calls[d].parent = c}

Happened(c, event) == \E i \in DOMAIN calls[c].events : calls[c].events[i] = event

\* activation c has got as far as looking its path up
Routed(c) ==
    IF IsNavigate(calls[c])
    THEN calls[c].result /\ calls[c].pc \in {"handler", "routed", "done", "rejected"}
    ELSE TRUE

\* C2: an activation whose path no route accepts makes exactly one navigate
\* call, to /app with replace = true; an activation whose path is accepted
\* makes none; and the path of such a redirect is always accepted, so a
\* redirect never makes another.
C2_RedirectsOnce ==
    \A c \in DOMAIN calls :
       /\ (Routed(c) /\ ~MatchOn(World, calls[c].path).found)
             => /\ Happened(c, "notfound")
                /\ Cardinality(Children(c)) = 1
                /\ \A d \in Children(c) :
                      /\ d > c
                      /\ calls[d].kind = "redirect"
                      /\ calls[d].path = AppPath
                      /\ calls[d].replace = TRUE
       /\ ~(Routed(c) /\ ~MatchOn(World, calls[c].path).found)
             => /\ ~Happened(c, "notfound")
                /\ Children(c) = {}
       /\ calls[c].kind = "redirect"
             => /\ ~Happened(c, "notfound")
                /\ Children(c) = {}

\* a navigation to /app/notebooks/ was redirected, and the redirect has run
\* the handler of /app and its after-guard
C2_Witness ==
    \E c \in DOMAIN calls, d \in DOMAIN calls :
       /\ calls[c].kind = "navigate"
       /\ Happened(c, "notfound")
       /\ calls[d].parent = c
       /\ calls[d].pc = "done"
       /\ Happened(d, "handler")
       /\ Happened(d, "after")

\* the route Router._matchRoute resolves the path of activation c to
Resolved(c) ==
    LET matched == MatchOn(World, calls[c].path)
    IN  [path |-> calls[c].path, params |-> matched.params,
         options |-> matched.route.options]

\* C3 as stated: when the handler of the matched route throws or rejects,
\* navigate still returns normally, Router.currentRoute is the route resolved
\* for the call, and the after-guard runs with the path of the call.
C3_AsStated ==
    [][\A c \in DOMAIN calls :
          (IsNavigate(calls[c]) /\ calls[c].pc = "handler"
             /\ calls[c].outcome = "threw" /\ calls'[c].pc # "handler")
             => /\ calls'[c].pc = "done"
                /\ currentRoute' = Resolved(c)
                /\ calls'[c].events[Len(calls'[c].events)] = "after"]_vars

\* C3, amended: when the handler of the matched route throws or rejects,
\* navigate still returns normally, Router.currentRoute is not taken back (it
\* is the route resolved for the call unless a later activation has resolved
\* its own since), and the after-guard runs with the path of the call (it
\* sets that route's title and hides the loading screen).
C3_HandlerFailureContained ==
    [][\A c \in DOMAIN calls :
          /\ (calls[c].outcome = "pending" /\ calls'[c].outcome = "threw")
                => currentRoute' = currentRoute
          /\ (calls[c].pc = "handler" /\ calls[c].outcome = "threw"
                /\ calls'[c].pc # "handler")
                => /\ calls'[c].pc = "done"
                   /\ currentRoute' = currentRoute
                   /\ calls'[c].committed = Resolved(c)
                   /\ commits[Len(commits)] = c => currentRoute' = Resolved(c)
                   /\ IsNavigate(calls[c])
                         => /\ calls'[c].events[Len(calls'[c].events)] = "after"
                            /\ title' = Resolved(c).options.title
                            /\ isLoading' = FALSE]_vars

\* a navigate call whose handler rejected has returned after its after-guard,
\* and the current route is the one it resolved
C3_Witness ==
    \E c \in DOMAIN calls :
       /\ calls[c].kind = "navigate"
       /\ calls[c].outcome = "threw"
       /\ calls[c].pc = "done"
       /\ Happened(c, "after")
       /\ currentRoute = calls[c].committed

IsPrefix(s, t) == Len(s) <= Len(t) /\ \A i \in DOMAIN s : s[i] = t[i]

\* C4: what a navigate call has done so far is a beginning of: approval by
\* the before-guard, history update, handler invoked, handler settled,
\* after-guard (or, with no matching route: approval, history update,
\* redirect, after-guard); a call that was not approved has done none of it.
C4_StepsInOrder ==
    \A c \in DOMAIN calls :
       IsNavigate(calls[c]) =>
          IF calls[c].result
          THEN \/ IsPrefix(calls[c].events,
                           <<"approved", "history", "handler", "settled", "after">>)
               \/ IsPrefix(calls[c].events,
                           <<"approved", "history", "notfound", "after">>)
          ELSE calls[c].events = <<"vetoed">>

\* a navigate call has gone through all five steps
C4_Witness ==
    \E c \in DOMAIN calls :
       /\ calls[c].kind = "navigate"
       /\ calls[c].pc = "done"
       /\ calls[c].events = <<"approved", "history", "handler", "settled", "after">>

-----------------------------------------------------------------------------
(* Starting and stopping a notebook: the claims. *)

\* s without immediate repetitions
RECURSIVE Squeezed(_)
Squeezed(s) ==
    IF Len(s) <= 1 THEN s
    ELSE IF s[1] = s[2] THEN Squeezed(Tail(s))
         ELSE <<s[1]>> \o Squeezed(Tail(s))

Succeeded(op) == op.response = "ok"

Finished(op) == op.pc \in {"done", "rejected"}

\* C11: a start whose create-session request succeeds takes the progress
\* cursor through 0, 1, 2, 3 in that order, step 1 only after the response;
\* it ends complete at step 3; the silent reconciliation fetch is issued only
\* once it is complete, and when that fetch is answered the view's data are
\* the server's notebooks merged with the server's sessions.
C11_StartRunsItsSteps ==
    /\ \A o \in DOMAIN ops :
          ops[o].kind = "start" =>
             /\ IsPrefix(Squeezed(ops[o].steps), <<0, 1, 2, 3>>)
             /\ ops[o].currentStep >= 1 => Succeeded(ops[o])
             /\ ops[o].fetches > 0 => ops[o].state = "complete"
             /\ (Succeeded(ops[o]) /\ ops[o].pc \in {"refetch", "done"}) =>
                   /\ ops[o].state = "complete"
                   /\ ops[o].currentStep = 3
                   /\ Squeezed(ops[o].steps) = <<0, 1, 2, 3>>
                   /\ ops[o].fetches = 1
                   /\ \E r \in DOMAIN requests :
                         requests[r] = [kind |-> "fetchNotebooks", op |-> o]
    /\ (lastAction.name = "refetched" /\ lastAction.outcome = "ok") =>
          model.notebooks = MergeSessionsWithNotebooks(ListNotebooksResponse(server),
                                                       ListSessionsResponse(server))

\* a start has gone all the way and the view now shows the notebook running
C11_Witness ==
    /\ lastAction.name = "refetched"
    /\ lastAction.outcome = "ok"
    /\ ops[lastAction.op].kind = "start"
    /\ ops[lastAction.op].pc = "done"
    /\ ops[lastAction.op].steps = <<0, 0, 1, 2, 3>>
    /\ NotebookOf(model, OpFilename) # 0
    /\ model.notebooks[NotebookOf(model, OpFilename)].status = "running"


Failed(op) == op.response = "failed"

\* C12: when the request of a start or of a stop fails, the transition is in
\* the error state with step 0 flagged, a failure notification is shown, and
\* the restoration of the control area the transition replaced is scheduled
\* or done, for start as for stop.
C12_FailureRestores ==
    \A o \in DOMAIN ops :
        Failed(ops[o]) =>
           /\ ops[o].state = "error"
           /\ ops[o].flagged = 0
           /\ \E t \in DOMAIN toasts : toasts[t] = [type |-> "error", id |-> ops[o].id]
           /\ ops[o].card # 0 => (ops[o].pc = "restore" \/ ops[o].restored)

\* C13: a transition that has left its executor, failed or succeeded, has
\* issued exactly one _fetchNotebooks(true).
C13_EveryEndFetches ==
    \A o \in DOMAIN ops :
        (Finished(ops[o]) \/ ops[o].pc = "restore") => ops[o].fetches = 1

\* C14: a click on Stop for an id that is not in the merged view, or is there
\* without a session id, leaves the transitions, the requests, the cards and
\* the view's data as they were, and adds a warning notification.
C14_StopWithoutSession ==
    [][ (/\ lastAction'.name = "stop"
         /\ \/ NotebookOf(model, lastAction'.id) = 0
            \/ model.notebooks[NotebookOf(model, lastAction'.id)].session_id = Null)
        => /\ ops' = ops
           /\ requests' = requests
           /\ cards' = cards
           /\ model' = model
           /\ server' = server
           /\ toasts' = Append(toasts, [type |-> "warning", id |-> lastAction'.id]) ]_vars

\* Stop was clicked on a card left over from before the session ended
C14_Witness ==
    /\ lastAction.name = "stop"
    /\ NotebookOf(model, lastAction.id) # 0
    /\ model.notebooks[NotebookOf(model, lastAction.id)].session_id = Null
    /\ ops = <<>>
    /\ requests = <<>>
    /\ toasts = << [type |-> "warning", id |-> lastAction.id] >>

-----------------------------------------------------------------------------
(* The notebooks view and its polling: the claims. *)

\* C15: no run of the polling callback is started by a view that had been
\* destroyed by then.
C15_NoTickAfterDestroy ==
    \A t \in DOMAIN ticks : ~ticks[t].late

C17_OnlyMountedViewPolls ==
    /\ display[1] \in {"detail", "settings"} =>
          \A v \in DOMAIN views : views[v].destroyed
    /\ \A i \in intervals : i.active => i.view = mounted

-----------------------------------------------------------------------------
(* Navigation state against the history and the guards: the claims. *)

\* C18: once the router is initialised and has a current route, the path of
\* Router.currentRoute is the path of the current history entry.
C18_RouteAgreesWithHistory ==
    (inited /\ currentRoute # Null) => currentRoute.path = Pathname(World)

\* C19: every activation that has written Router.currentRoute is a navigate
\* call (from outside or from the not-found redirect) whose before-guard ran
\* and approved its path.
C19_CommitsPassedTheGuard ==
    \A i \in DOMAIN commits :
        /\ calls[commits[i]].kind \in {"navigate", "redirect"}
        /\ calls[commits[i]].events[1] = "approved"

-----------------------------------------------------------------------------
(* The API client and the session: the claims. *)

\* C20: every call answered 401 threw and left the session cleared (no user
\* in memory, no user item in sessionStorage) with the login page asked for.
C20_Every401ClearsAndRedirects ==
    \A i \in DOMAIN apiCalls :
        apiCalls[i].status = 401 =>
           /\ apiCalls[i].threw
           /\ apiCalls[i].left.user = Null
           /\ apiCalls[i].left.stored = Null
           /\ apiCalls[i].left.href = LoginPath

\* C20, for the calls that go through authenticatedFetch (APIClient.request
\* and uploadFile): answered 401, the call threw and left the session cleared
\* with the login page asked for. getCurrentUser answered 401 threw and left
\* the session cleared; login answered 401 threw.
C20_ClientCallsClearAndRedirect ==
    \A i \in DOMAIN apiCalls :
        /\ (apiCalls[i].status = 401 /\ apiCalls[i].name \in {"request", "uploadFile"}) =>
               /\ apiCalls[i].threw
               /\ apiCalls[i].left.user = Null
               /\ apiCalls[i].left.stored = Null
               /\ apiCalls[i].left.href = LoginPath
        /\ (apiCalls[i].status = 401 /\ apiCalls[i].name = "getCurrentUser") =>
               /\ apiCalls[i].threw
               /\ apiCalls[i].left.user = Null
               /\ apiCalls[i].left.stored = Null
        /\ (apiCalls[i].status = 401 /\ apiCalls[i].name = "login") => apiCalls[i].threw

\* a logged-in page made a request that was answered 401
C20_Witness ==
    \E i \in DOMAIN apiCalls :
        /\ apiCalls[i].status = 401
        /\ apiCalls[i].name = "request"
        /\ i > 1
        /\ apiCalls[i - 1].left.user = SomeUser
        /\ apiCalls[i - 1].left.href = Null
        /\ apiCalls[i].left.returnUrl = NotebooksPath


\* C21: getReturnUrl returns the stored return path, or /app when none is
\* stored, and leaves none stored; so of two getReturnUrl calls with nothing
\* in between the second returns /app. The stored return path is never
\* /login or /.
C21_ReturnPathOneShot ==
    [][ /\ (Len(apiCalls') = Len(apiCalls) + 1
              /\ apiCalls'[Len(apiCalls')].name = "getReturnUrl")
           => /\ apiCalls'[Len(apiCalls')].returned =
                    (IF session.returnUrl = Null THEN AppPath ELSE session.returnUrl)
              /\ session'.returnUrl = Null
        /\ \A i \in DOMAIN apiCalls' :
              (i > 1 /\ apiCalls'[i].name = "getReturnUrl"
                     /\ apiCalls'[i - 1].name = "getReturnUrl")
              => apiCalls'[i].returned = AppPath
        /\ session'.returnUrl \notin {LoginPath, RootPath} ]_vars

\* a 401 on /app/notebooks stored that path; the first getReturnUrl returned
\* it and the second returned /app
C21_Witness ==
    /\ Len(apiCalls) = 3
    /\ apiCalls[1].status = 401
    /\ apiCalls[1].left.returnUrl = NotebooksPath
    /\ apiCalls[2].name = "getReturnUrl"
    /\ apiCalls[2].returned = NotebooksPath
    /\ apiCalls[3].name = "getReturnUrl"
    /\ apiCalls[3].returned = AppPath


\* C22: in the merged view every notebook either carries no session (no id,
\* stopped, no URL) or carries the id, the status and the URL of one and the
\* same session of the fetched list, a session that matches it.
C22_AtMostOneSession ==
    data.merged =>
        \A i \in DOMAIN data.notebooks :
            LET n == data.notebooks[i]
            IN  \/ n.session_id = Null /\ n.status = "stopped" /\ n.url = Null
                \/ \E j \in DOMAIN fetched.sessions :
                      /\ SessionMatches(fetched.sessions[j], fetched.notebooks[i])
                      /\ n.session_id = fetched.sessions[j].session_id
                      /\ n.status = fetched.sessions[j].status
                      /\ n.url = UiUrl(fetched.sessions[j].session_id)

\* a notebook that two sessions of different status match has been merged
C22_Witness ==
    /\ data.merged
    /\ \E i \in DOMAIN data.notebooks :
          /\ data.notebooks[i].session_id # Null
          /\ \E j, k \in SessionsOf(fetched.notebooks[i]) :
                /\ j # k
                /\ fetched.sessions[j].status # fetched.sessions[k].status


InFlight(op) == op.pc \in {"request", "timer", "refetch"}

\* C28: a click on a Start button, or on a Stop button of a notebook with a
\* matched session, always begins a transition of its own, whatever
\* transitions of the same notebook are in flight: one more transition, its
\* own request issued, and the control area of the notebook's card showing
\* its progress indicator.
C28_NothingSerialises ==
    [][ (\/ lastAction'.name = "start"
         \/ /\ lastAction'.name = "stop"
            /\ NotebookOf(model, lastAction'.id) # 0
            /\ model.notebooks[NotebookOf(model, lastAction'.id)].session_id # Null)
        => /\ Len(ops') = Len(ops) + 1
           /\ ops'[Len(ops')].id = lastAction'.id
           /\ ops'[Len(ops')].pc = "request"
           /\ requests' = Append(requests,
                             [kind |-> IF lastAction'.name = "start"
                                       THEN "createSession" ELSE "terminateSession",
                              op |-> Len(ops')])
           /\ CardOf(cards', lastAction'.id) # 0
           /\ cards'.list[CardOf(cards', lastAction'.id)].actions =
                 [progress |-> Len(ops')] ]_vars

\* two transitions of the same notebook are in flight, the second one's
\* indicator in the card
C28_Witness ==
    /\ Len(ops) = 2
    /\ ops[1].id = ops[2].id
    /\ InFlight(ops[1])
    /\ InFlight(ops[2])
    /\ CardOf(cards, ops[2].id) # 0
    /\ cards.list[CardOf(cards, ops[2].id)].actions = [progress |-> 2]

\* C29: a stop on a notebook with a matched session begins a transition that
\* holds the session id the merged view had at the click; every stop has
\* issued exactly one terminate request; its cursor goes through 0, 1, 2 in
\* order, is at 1 or later only with the terminate response received, and a
\* stop whose request succeeded and that has left its timers is complete at
\* step 2.
C29_StopRunsItsSteps ==
    [][ /\ (lastAction'.name = "stop" /\ Len(ops') = Len(ops) + 1)
           => /\ NotebookOf(model, lastAction'.id) # 0
              /\ ops'[Len(ops')].session # Null
              /\ ops'[Len(ops')].session =
                    model.notebooks[NotebookOf(model, lastAction'.id)].session_id
        /\ \A o \in DOMAIN ops' :
              ops'[o].kind = "stop" =>
                 /\ Cardinality({r \in DOMAIN requests' :
                                    requests'[r] = [kind |-> "terminateSession",
                                                    op |-> o]}) = 1
                 /\ IsPrefix(Squeezed(ops'[o].steps), <<0, 1, 2>>)
                 /\ ops'[o].currentStep >= 1 => Succeeded(ops'[o])
                 /\ (Succeeded(ops'[o]) /\ ops'[o].pc \in {"refetch", "done"}) =>
                       /\ ops'[o].state = "complete"
                       /\ ops'[o].currentStep = 2
                       /\ Squeezed(ops'[o].steps) = <<0, 1, 2>> ]_vars

\* a stop has gone all the way and the view shows the notebook stopped
C29_Witness ==
    /\ lastAction.name = "refetched"
    /\ lastAction.outcome = "ok"
    /\ ops[lastAction.op].kind = "stop"
    /\ ops[lastAction.op].pc = "done"
    /\ ops[lastAction.op].steps = <<0, 0, 1, 2>>
    /\ ops[lastAction.op].session = SessionId(1)
    /\ NotebookOf(model, OpFilename) # 0
    /\ model.notebooks[NotebookOf(model, OpFilename)].status = "stopped"


\* the navigate call c was approved by the before-guard and its after-guard
\* has not run yet
Navigating(c) ==
    /\ calls[c].kind \in {"navigate", "redirect"}
    /\ calls[c].result
    /\ calls[c].pc \notin {"done", "rejected"}

\* C30: App.isLoading is true exactly when an approved navigation is in flight.
C30_LoadingWhileNavigating ==
    isLoading <=> \E c \in DOMAIN calls : Navigating(c)


\* the intervals of view v that have not been cleared
Polling(ivs, v) == {i \in ivs : i.view = v /\ i.active}

\* C25: a view holds an interval, and has one that was not cleared, only
\* once a fetch of its render has succeeded and it has rendered the list;
\* when the fetch of render fails the error display is written and the view
\* has no interval; when it succeeds, at first or on a retry, the view comes
\* out with exactly one running interval, the one it holds.
C25_PollingAfterFirstRender ==
    [][ \A v \in DOMAIN views' :
           /\ views'[v].state # "shown" =>
                 /\ views'[v].pollInterval = 0
                 /\ Polling(intervals', v) = {}
           /\ (v \in DOMAIN views /\ views[v].state = "fetching"
                  /\ views'[v].state = "error") =>
                 display' = <<"error", v>>
           /\ (v \in DOMAIN views /\ views[v].state = "fetching"
                  /\ views'[v].state = "shown") =>
                 /\ display' = <<"notebooks", v>>
                 /\ Polling(intervals', v) =
                       {[id |-> views'[v].pollInterval, view |-> v, active |-> TRUE]}
                 /\ Polling(intervals, v) = {} ]_vars

\* the first fetch failed, the retry succeeded and the view is polling
C25_Witness ==
    \E v \in DOMAIN views :
        /\ views[v].retried
        /\ views[v].state = "shown"
        /\ ~views[v].destroyed
        /\ Polling(intervals, v) # {}
        /\ \E t \in DOMAIN ticks : ticks[t].view = v


\* a tick of view v is awaiting its fetch
TickPending(tks, v) == \E t \in DOMAIN tks : tks[t].view = v /\ tks[t].pc = "fetching"

\* view v has been torn down and has nothing left that could run: no fetch
\* of render awaited, no interval, no tick awaiting, no retry button up
Quiet(vs, ivs, tks, d, v) ==
    /\ vs[v].destroyed
    /\ vs[v].state # "fetching"
    /\ vs[v].pollInterval = 0
    /\ Polling(ivs, v) = {}
    /\ ~TickPending(tks, v)
    /\ d # <<"error", v>>

AloneOnItsNotebook(o) == \A p \in DOMAIN ops : ops[p].id = ops[o].id => p = o

\* C23: a transition in flight that is the only one of its notebook, and
\* that found the notebook's card, has its progress indicator in the control
\* area of that card, whatever transitions of other notebooks are doing (as
\* it has when it runs alone).
C23_IndependentAcrossIds ==
    \A o \in DOMAIN ops :
        (InFlight(ops[o]) /\ ops[o].card # 0 /\ AloneOnItsNotebook(o)) =>
           /\ CardOf(cards, ops[o].id) # 0
           /\ cards.list[CardOf(cards, ops[o].id)].actions = [progress |-> o]

-----------------------------------------------------------------------------
(* Reconciliation ticks, request by request: the claims. *)

\* the request of this kind of tick t has been issued and not yet answered
Awaited(t, kind) ==
    /\ \E r \in DOMAIN requests : requests[r] = Logged(t, kind, "issued")
    /\ \A r \in DOMAIN requests :
          /\ requests[r] # Logged(t, kind, "arrived")
          /\ requests[r] # Logged(t, kind, "failed")

\* C26, as stated: within one tick the sessions request is issued without
\* waiting for the notebooks response, so while the notebooks request of a
\* tick is in flight its sessions request is in flight too.
C26_BothInFlight ==
    \A t \in DOMAIN ticks : Awaited(t, "notebooks") => Awaited(t, "sessions")

\* C26, amended: within one tick the sessions request is issued only after
\* the notebooks response has been received, so the two requests of a tick
\* are never in flight together; a tick whose notebooks request failed
\* issues no sessions request at all.
C26_SessionsAfterNotebooks ==
    /\ \A t \in DOMAIN ticks : ~ (Awaited(t, "notebooks") /\ Awaited(t, "sessions"))
    /\ \A r \in DOMAIN requests :
          requests[r].kind = "sessions" /\ requests[r].event = "issued"
             => \E q \in 1..(r - 1) :
                   requests[q] = Logged(requests[r].tick, "notebooks", "arrived")
    /\ \A r \in DOMAIN requests :
          requests[r].kind = "notebooks" /\ requests[r].event = "failed"
             => \A q \in DOMAIN requests :
                   requests[q] # Logged(requests[r].tick, "sessions", "issued")

\* one tick awaits its sessions after its notebooks arrived, another ended
\* on a failed notebooks request
C26_Witness ==
    /\ \E t \in DOMAIN ticks : Awaited(t, "sessions")
    /\ \E r \in DOMAIN requests :
          requests[r].kind = "notebooks" /\ requests[r].event = "failed"

\* every tick started has received both of its responses
AllResolved ==
    \A t \in DOMAIN ticks :
       /\ \E r \in DOMAIN requests : requests[r] = Logged(t, "notebooks", "arrived")
       /\ \E r \in DOMAIN requests : requests[r] = Logged(t, "sessions", "arrived")

\* the second tick started while the first was in flight
Overlapped ==
    /\ Len(ticks) >= 2
    /\ \E r \in DOMAIN requests :
          /\ requests[r] = Logged(2, "notebooks", "issued")
          /\ \A q \in 1..r : requests[q].tick # 1 \/ requests[q].kind # "sessions"
                                \/ requests[q].event = "issued"

\* the tick whose response of this kind arrived last
LastArrived(kind) ==
    LET arrivals == {r \in DOMAIN requests :
                        requests[r].kind = kind /\ requests[r].event = "arrived"}
    IN  requests[CHOOSE r \in arrivals : \A q \in arrivals : q <= r].tick

\* C27, as stated: when two ticks in flight together have both resolved, the
\* merged view is the one built from the later tick's responses.
C27_LaterTickWins ==
    Overlapped /\ AllResolved
       => model.notebooks =
             MergeSessionsWithNotebooks(ticks[Len(ticks)].notebooks,
                                        ticks[Len(ticks)].sessions)

\* C27, amended: when two ticks in flight together have both resolved, the
\* merged view is built from the notebooks response that arrived last and the
\* sessions response that arrived last, whichever ticks they belong to.
C27_LastArrivalsWin ==
    Overlapped /\ AllResolved
       => /\ model.sessions = ticks[LastArrived("sessions")].sessions
          /\ model.notebooks =
                MergeSessionsWithNotebooks(ticks[LastArrived("notebooks")].notebooks,
                                           ticks[LastArrived("sessions")].sessions)

\* both ticks resolved, the earlier tick's sessions arrived last and differ
\* from the later tick's
C27_Witness ==
    /\ Overlapped
    /\ AllResolved
    /\ LastArrived("sessions") = 1
    /\ ticks[1].sessions # ticks[2].sessions


-----------------------------------------------------------------------------
(* Merging: one session, two notebooks. *)

\* C33: in the merged view two different notebook definitions never carry
\* the same session id, also when the file name of one is a suffix of the
\* file name of the other.
C33_NoSharedSession ==
    data.merged =>
        \A i, k \in DOMAIN data.notebooks :
            /\ i # k
            /\ data.notebooks[i].session_id # Null
            => data.notebooks[i].session_id # data.notebooks[k].session_id


-----------------------------------------------------------------------------
(* The card list after _updateNotebookCards. *)

\* the notebooks the card list shows, in order
Displayed(cs) == [i \in DOMAIN cs.list |-> cs.list[i].id]

\* C38: after every card update (a polling tick, a filter change, the end of
\* a transition) the cards shown are the filtered notebooks, in their order;
\* when the filtered list is empty no card is shown.
C38_CardsAreTheFilteredList ==
    [][lastAction'.name \in {"tick", "filter", "refetched"}
          => Displayed(cards') = [i \in DOMAIN Filtered(model') |->
                                      Filtered(model')[i].filename]]_vars


-----------------------------------------------------------------------------
(* The end states of a transition. *)

\* the notifications of this type shown so far
Notified(type) == Cardinality({i \in DOMAIN toasts : toasts[i].type = type})

\* C39: a transition marked Complete (its success notification shown) is
\* never afterwards flagged Error or reported as failed, and a transition
\* flagged Error is never marked Complete: every success notification belongs
\* to a transition that stays complete, every failure notification to one
\* that stays in error.
C39_EndStatesExclude ==
    [][/\ \A o \in DOMAIN ops :
             /\ ops[o].state = "complete"
                => ops'[o].state = "complete" /\ ops'[o].flagged = -1
             /\ ops[o].state = "error"
                => ops'[o].state = "error" /\ ops'[o].flagged = 0
       /\ Notified("success")' =
             Cardinality({o \in DOMAIN ops' : ops'[o].state = "complete"})
       /\ Notified("error")' =
             Cardinality({o \in DOMAIN ops' : ops'[o].state = "error"})]_vars

\* a completed transition whose refresh failed has ended, next to one in error
C39_Witness ==
    /\ lastAction.name = "refetched"
    /\ lastAction.outcome # "ok"
    /\ ops[lastAction.op].state = "complete"
    /\ ops[lastAction.op].pc = "done"
    /\ \E o \in DOMAIN ops : ops[o].state = "error"


-----------------------------------------------------------------------------
(* One view object and its polling timer. *)

\* the timers of view v that have not been cleared
ActiveTimers(v) == {i \in intervals : i.view = v /\ i.active}

\* C37: whatever the order of render, retry, _startPolling and destroy
\* calls, the view has at most one timer that is not cleared, and it is the
\* one pollInterval names; a _startPolling call leaves exactly the timer it
\* made, and after a destroy call pollInterval is null and no timer is left.
C37_AtMostOneTimer ==
    [][/\ Cardinality(ActiveTimers(1)') <= 1
       /\ \A i \in ActiveTimers(1)' : i.id = views'[1].pollInterval
       /\ views'[1].pollInterval # 0 => ActiveTimers(1)' # {}
       /\ lastAction'.name = "startPolling"
          => ActiveTimers(1)' = {[id |-> Cardinality(intervals'), view |-> 1,
                                  active |-> TRUE]}
       /\ lastAction'.name = "destroy"
          => views'[1].pollInterval = 0 /\ ActiveTimers(1)' = {}]_vars

\* after a retry and a destroy call, polling is started while a timer runs
C37_Witness ==
    /\ lastAction.name = "startPolling"
    /\ lastAction.running
    /\ views[1].retried
    /\ views[1].destroyed


-----------------------------------------------------------------------------
(* _fetchNotebooks, request by request: failures. *)

\* this step is the failure of the listNotebooks of the silent call t
SilentNotebooksFailure(t) ==
    /\ ticks[t].silent
    /\ requests' = Append(requests, Logged(t, "notebooks", "failed"))

\* C34: when the notebook-definitions request of a silent tick fails, the
\* tick leaves notebooks, sessions and filteredNotebooks as they were and
\* issues no sessions request.
C34_FailedTickChangesNothing ==
    [][\A t \in DOMAIN ticks :
          SilentNotebooksFailure(t)
          => /\ model'.notebooks = model.notebooks
             /\ model'.sessions = model.sessions
             /\ model'.filteredNotebooks = model.filteredNotebooks
             /\ \A r \in DOMAIN requests' :
                   requests'[r] # Logged(t, "sessions", "issued")]_vars


\* this step is the failure of the listSessions of call t
SessionsFailure(t) == requests' = Append(requests, Logged(t, "sessions", "failed"))

\* C35: when the sessions request of a silent tick fails after its notebooks
\* request succeeded, the stored sessions keep their value and the merged
\* view is recomputed from the definitions just fetched and those stored
\* sessions, and filtered; when it fails in a call that is not silent, the
\* error propagates and neither the merge nor the filter runs.
C35_SessionsFailure ==
    [][\A t \in DOMAIN ticks :
          SessionsFailure(t)
          => IF ticks[t].silent
             THEN /\ model'.sessions = model.sessions
                  /\ model'.notebooks =
                        MergeSessionsWithNotebooks(
                           ticks[LastArrived("notebooks")].notebooks, model.sessions)
                  /\ model'.filteredNotebooks = Filtered(model')
                  /\ ticks'[t].pc = "done"
             ELSE /\ model' = model
                  /\ ticks'[t].pc = "thrown"]_vars

\* the sessions request of a silent tick has just failed where the answer
\* would have differed from the stored sessions, and a call that is not
\* silent has thrown on its sessions request
C35_Witness ==
    /\ requests # <<>>
    /\ LET last == requests[Len(requests)]
       IN  /\ last.kind = "sessions"
           /\ last.event = "failed"
           /\ ticks[last.tick].silent
           /\ ticks[last.tick].sessions # model.sessions
    /\ \E t \in DOMAIN ticks :
          /\ ~ ticks[t].silent
          /\ ticks[t].pc = "thrown"
          /\ \E r \in DOMAIN requests : requests[r] = Logged(t, "sessions", "failed")


\* the definitions of a notebook list, without what a merge added
Raw(notebooks) ==
    [i \in DOMAIN notebooks |->
        [filename |-> notebooks[i].filename, path |-> notebooks[i].path]]

\* this step ends call t with the merge of lines 67-69
MergeRuns(t) == ticks[t].pc = "sessions" /\ ticks'[t].pc = "done"

\* C36: merging a list that an earlier merge has already gone over gives
\* what merging its raw definitions gives: whatever pairing the earlier merge
\* left, every notebook carries after the merge the id, status and URL of a
\* session of the list merged against, or none.
C36_MergeOverwrites ==
    [][\A t \in DOMAIN ticks :
          MergeRuns(t)
          => /\ model'.notebooks =
                   MergeSessionsWithNotebooks(Raw(model.notebooks), model'.sessions)
             /\ \A i \in DOMAIN model'.notebooks :
                   LET n == model'.notebooks[i]
                   IN  \/ n.session_id = Null /\ n.status = "stopped" /\ n.url = Null
                       \/ \E j \in DOMAIN model'.sessions :
                             /\ n.session_id = model'.sessions[j].session_id
                             /\ n.status = model'.sessions[j].status
                             /\ n.url = UiUrl(n.session_id)]_vars

\* two sessions responses arrived one after the other with no notebooks
\* response in between: the second merge went over the list the first had
\* paired with a session, against a list without that session
C36_Witness ==
    /\ Len(requests) >= 2
    /\ LET last == requests[Len(requests)]
           before == requests[Len(requests) - 1]
       IN  /\ last.kind = "sessions" /\ last.event = "arrived"
           /\ before.kind = "sessions" /\ before.event = "arrived"
           /\ ticks[before.tick].sessions # <<>>
           /\ ticks[last.tick].sessions = <<>>
           /\ model.sessions = <<>>


-----------------------------------------------------------------------------
(* Route handlers and authentication. *)

\* activation c invokes its route handler in this step
InvokesHandler(c) ==
    /\ calls'[c].handler # "none"
    /\ c \in DOMAIN calls => calls[c].handler = "none"

\* C32: the handler of a route registered with requireAuth is never invoked
\* while the auth manager reports no authenticated user, whichever way the
\* router was entered: navigate, the initial load, back/forward, the
\* not-found redirect.
C32_HandlersNeedAuth ==
    [][\A c \in DOMAIN calls' :
          InvokesHandler(c) /\ calls'[c].committed.options.requireAuth
             => IsAuthenticated(World)]_vars


-----------------------------------------------------------------------------
(* C31: a _createNotebook call whose trimmed name is empty or does not end
   in .py issues no create request and shows an error in the modal; a
   create request that fails shows an error in the modal too. Neither step
   opens or closes the modal, and neither touches the view's data. *)

NameRejected ==
    /\ lastAction'.name = "createNotebook"
    /\ \/ Trim(display.input) = <<>>
       \/ ~EndsWith(Trim(display.input), PySuffix)

CreateRequestFailed ==
    /\ lastAction'.name = "caught"
    /\ lastAction'.during = "create"

C31_CreateErrorsStayInModal ==
    [][ /\ NameRejected =>
            /\ requests' = requests
            /\ ops' = ops
            /\ toasts' = toasts
            /\ display'.error.text \in {"Please enter a notebook name",
                                        "Notebook name must end with .py"}
        /\ CreateRequestFailed =>
            /\ requests' = requests
            /\ display'.error.text \in {"detail", "Failed to create notebook"}
            /\ server' = server
        /\ (NameRejected \/ CreateRequestFailed) =>
            /\ ~display'.error.hidden
            /\ display'.active = display.active
            /\ display'.input = display.input
            /\ model' = model ]_vars

\* a create request has failed under the open modal, which shows the error,
\* and the list holds a notebook
C31_Witness ==
    /\ lastAction.name = "caught"
    /\ lastAction.during = "create"
    /\ display.active
    /\ ~display.error.hidden
    /\ display.error.text = "detail"
    /\ requests # <<>>
    /\ model.notebooks # <<>>

=============================================================================
